---- MODULE Spec2Model ----
(***************************************************************************)
(* Model of manage_node_groups.py (NodeGroupManager): the scaling-state    *)
(* codec (_parse_scaling_values and the two save-path format strings), the *)
(* per-resource save-and-zero / restore actions for Auto Scaling Groups    *)
(* and node pools, and the thread-pool executor that runs them.            *)
(*                                                                         *)
(* Text is modelled as a sequence of one-character strings, so that        *)
(* formatting and parsing are computed character by character as the       *)
(* Python code computes them.                                              *)
(***************************************************************************)
EXTENDS Integers, Sequences, FiniteSets, TLC

(***************************************************************************)
(* Text helpers: the Python str operations the codec uses.                 *)
(***************************************************************************)

\* The decimal digit characters, in order: DigitChars[d + 1] is the digit d.
DigitChars == <<"0", "1", "2", "3", "4", "5", "6", "7", "8", "9">>

\* str.isdigit for one character of the payload alphabet.
IsDigit(c) == \E i \in 1..10 : DigitChars[i] = c

\* The value of a digit character.
DigitVal(c) == (CHOOSE i \in 1..10 : DigitChars[i] = c) - 1

UpperChars == <<"A", "B", "C", "D", "E", "F", "G", "H", "I", "J", "K", "L", "M",
                "N", "O", "P", "Q", "R", "S", "T", "U", "V", "W", "X", "Y", "Z">>

LowerChars == <<"a", "b", "c", "d", "e", "f", "g", "h", "i", "j", "k", "l", "m",
                "n", "o", "p", "q", "r", "s", "t", "u", "v", "w", "x", "y", "z">>

\* str.lower for one character.
LowerChar(c) ==
    IF \E i \in 1..26 : UpperChars[i] = c
    THEN LowerChars[CHOOSE i \in 1..26 : UpperChars[i] = c]
    ELSE c

\* str.lower.
Lower(s) == [i \in 1..Len(s) |-> LowerChar(s[i])]

\* The decimal digits of a natural number, most significant first.
RECURSIVE NatToStr(_)
NatToStr(n) ==
    IF n < 10 THEN <<DigitChars[n + 1]>>
    ELSE NatToStr(n \div 10) \o <<DigitChars[(n % 10) + 1]>>

\* str(int), as an f-string renders an integer field: a minus sign for a
\* negative number, then the digits.
IntToStr(n) == IF n < 0 THEN <<"-">> \o NatToStr(0 - n) ELSE NatToStr(n)

\* `sub in s` for strings.
Contains(s, sub) ==
    \E i \in 0..(Len(s) - Len(sub)) :
        \A j \in 1..Len(sub) : s[i + j] = sub[j]

\* s.startswith(pre).
StartsWith(s, pre) ==
    /\ Len(pre) <= Len(s)
    /\ \A j \in 1..Len(pre) : s[j] = pre[j]

\* `c in s` for one character.
HasChar(s, c) == \E i \in 1..Len(s) : s[i] = c

\* str.strip: leading and trailing blanks removed.
RECURSIVE LStrip(_)
LStrip(s) == IF s # <<>> /\ Head(s) = " " THEN LStrip(Tail(s)) ELSE s

RECURSIVE RStrip(_)
RStrip(s) ==
    IF s # <<>> /\ s[Len(s)] = " " THEN RStrip(SubSeq(s, 1, Len(s) - 1)) ELSE s

Strip(s) == RStrip(LStrip(s))

\* str.split(sep) for a one-character separator: always at least one part.
RECURSIVE Split(_, _)
Split(s, sep) ==
    IF ~HasChar(s, sep) THEN <<s>>
    ELSE LET i == CHOOSE k \in 1..Len(s) :
                      s[k] = sep /\ \A j \in 1..(k - 1) : s[j] # sep
         IN  <<SubSeq(s, 1, i - 1)>> \o Split(SubSeq(s, i + 1, Len(s)), sep)

\* ''.join(filter(str.isdigit, part)): the digit characters of part, in order.
FilterDigits(part) == SelectSeq(part, IsDigit)

\* The number a non-empty digit string denotes.
RECURSIVE DigitsToNat(_)
DigitsToNat(ds) ==
    IF ds = <<>> THEN 0
    ELSE 10 * DigitsToNat(SubSeq(ds, 1, Len(ds) - 1)) + DigitVal(ds[Len(ds)])

\* int(s): blanks stripped, an optional sign, then one or more digits;
\* anything else raises ValueError (ok = FALSE).
PyInt(s) ==
    LET t    == Strip(s)
        neg  == t # <<>> /\ Head(t) = "-"
        sign == t # <<>> /\ Head(t) \in {"-", "+"}
        ds   == IF sign THEN Tail(t) ELSE t
    IN  IF ds # <<>> /\ \A i \in 1..Len(ds) : IsDigit(ds[i])
        THEN [ok |-> TRUE,
              val |-> IF neg THEN 0 - DigitsToNat(ds) ELSE DigitsToNat(ds)]
        ELSE [ok |-> FALSE, val |-> 0]

(***************************************************************************)
(* Literals of the source, spelled as character sequences.                 *)
(***************************************************************************)
TxtMax == <<"m", "a", "x">>
TxtMin == <<"m", "i", "n">>
TxtSize == <<"s", "i", "z", "e">>
TxtDesired == <<"d", "e", "s", "i", "r", "e", "d">>
TxtCapacity == <<"c", "a", "p", "a", "c", "i", "t", "y">>
TxtMaxSizeEq == <<"M", "a", "x", "S", "i", "z", "e", "=">>
TxtDesiredCapacityEq ==
    <<"D", "e", "s", "i", "r", "e", "d", "C", "a", "p", "a", "c", "i", "t", "y", "=">>
TxtMinSizeEq == <<"M", "i", "n", "S", "i", "z", "e", "=">>

\* The limit _validate_scaling_values puts on max_size.
MaxSizeLimit == 1000

(***************************************************************************)
(* The save path's two formats.                                            *)
(***************************************************************************)

\* tag_value of _scale_down_aws_asg:
\*   f"MaxSize={current_max};DesiredCapacity={current_desired};MinSize={current_min}"
FormatAws(mx, de, mn) ==
    TxtMaxSizeEq \o IntToStr(mx) \o <<";">>
        \o TxtDesiredCapacityEq \o IntToStr(de) \o <<";">>
        \o TxtMinSizeEq \o IntToStr(mn)

\* label_value of _scale_down_gcp_node_pool:
\*   f"maxsize{current_max}-desiredcapacity{current_desired}-minsize{current_min}"
FormatGcp(mx, de, mn) ==
    TxtMax \o TxtSize \o IntToStr(mx) \o <<"-">>
        \o TxtDesired \o TxtCapacity \o IntToStr(de) \o <<"-">>
        \o TxtMin \o TxtSize \o IntToStr(mn)

\* The payload the save path of a provider writes for a capacity.
FormatFor(prov, mx, de, mn) ==
    IF prov = "aws" THEN FormatAws(mx, de, mn) ELSE FormatGcp(mx, de, mn)

(***************************************************************************)
(* The parser.  A dict `values` is a function whose domain is the set of   *)
(* keys assigned so far, a subset of {"max", "min", "desired"}.            *)
(***************************************************************************)

\* values[k] = v
DictSet(values, k, v) ==
    [x \in (DOMAIN values) \cup {k} |-> IF x = k THEN v ELSE values[x]]

EmptyDict == [x \in {} |-> 0]

\* The field a key of the keyed format names, by the if/elif chain of
\* _parse_aws_format; "none" for an unrecognised key.
AwsKeyField(key) ==
    IF Contains(key, TxtMax \o TxtSize)
          \/ (StartsWith(key, TxtMax) /\ Contains(key, TxtSize))
    THEN "max"
    ELSE IF Contains(key, TxtMin \o TxtSize)
          \/ (StartsWith(key, TxtMin) /\ Contains(key, TxtSize))
    THEN "min"
    ELSE IF Contains(key, TxtDesired \o TxtCapacity)
          \/ (Contains(key, TxtDesired) /\ Contains(key, TxtCapacity))
    THEN "desired"
    ELSE "none"

\* A loop body that takes the fields in the order the save path writes
\* them: a param is read only when it names the next field of that order.
AwsParamInOrder(values, rawParam) ==
    LET param == Strip(rawParam)
        want  == CASE Cardinality(DOMAIN values) = 0 -> "max"
                   [] Cardinality(DOMAIN values) = 1 -> "desired"
                   [] OTHER -> "min"
    IN  IF param = <<>> \/ ~HasChar(param, "=") THEN values
        ELSE LET i   == CHOOSE k \in 1..Len(param) : param[k] = "="
                 key == Lower(Strip(SubSeq(param, 1, i - 1)))
                 num == PyInt(Strip(SubSeq(param, i + 1, Len(param))))
             IN  IF AwsKeyField(key) # want \/ ~num.ok THEN values
                 ELSE DictSet(values, want, num.val)

\* One pass of the loop body of _parse_aws_format over a `;`-separated
\* param.  A param without `=` or with a value int() rejects raises
\* ValueError inside the try, is logged and skipped.
AwsParam(values, rawParam) ==
    LET param == Strip(rawParam)
    IN  IF param = <<>> THEN values
        ELSE IF ~HasChar(param, "=") THEN values
        ELSE LET i   == CHOOSE k \in 1..Len(param) :
                            param[k] = "=" /\ \A j \in 1..(k - 1) : param[j] # "="
                 key == Lower(Strip(SubSeq(param, 1, i - 1)))
                 val == Strip(SubSeq(param, i + 1, Len(param)))
                 fld == AwsKeyField(key)
                 num == PyInt(val)
             IN  IF fld = "none" THEN values
                 ELSE IF ~num.ok THEN values
                 ELSE DictSet(values, fld, num.val)

RECURSIVE AwsLoop(_, _)
AwsLoop(values, params) ==
    IF params = <<>> THEN values
    ELSE AwsLoop(AwsParam(values, Head(params)), Tail(params))

\* _parse_aws_format: the dict, or the "missing required values" error.
ParseAwsFormat(value) ==
    LET values == AwsLoop(EmptyDict, Split(value, ";"))
    IN  IF Cardinality(DOMAIN values) # 3
        THEN [ok |-> FALSE, err |-> "missing", values |-> values]
        ELSE [ok |-> TRUE, err |-> "", values |-> values]

\* The field a `-`-separated token names, by the if/elif chain of
\* _parse_gcp_format.
GcpPartField(part) ==
    IF Contains(part, TxtMax) THEN "max"
    ELSE IF Contains(part, TxtMin) THEN "min"
    ELSE IF Contains(part, TxtDesired) THEN "desired"
    ELSE "none"

\* The loop of _parse_gcp_format.  int('') on a token that names a field
\* and holds no digit raises ValueError out of the function: the loop state
\* carries that as ok = FALSE.
RECURSIVE GcpLoop(_, _)
GcpLoop(st, parts) ==
    IF parts = <<>> \/ ~st.ok THEN st
    ELSE LET part == Strip(Head(parts))
             fld  == GcpPartField(part)
             ds   == FilterDigits(part)
         IN  IF fld = "none" THEN GcpLoop(st, Tail(parts))
             ELSE IF ds = <<>>
             THEN [ok |-> FALSE, err |-> "int", values |-> st.values]
             ELSE GcpLoop([st EXCEPT !.values = DictSet(@, fld, DigitsToNat(ds))],
                          Tail(parts))

\* _parse_gcp_format.
ParseGcpFormat(value) ==
    LET st == GcpLoop([ok |-> TRUE, err |-> "", values |-> EmptyDict],
                      Split(value, "-"))
    IN  IF ~st.ok THEN st
        ELSE IF Cardinality(DOMAIN st.values) # 3
        THEN [ok |-> FALSE, err |-> "missing", values |-> st.values]
        ELSE st

\* The validation without the limit on max_size.
ValidateNoLimit(values) ==
    IF \E k \in DOMAIN values : values[k] < 0 THEN "negative"
    ELSE IF values["min"] > values["max"] THEN "min_gt_max"
    ELSE IF ~(values["min"] <= values["desired"] /\ values["desired"] <= values["max"])
    THEN "desired_range"
    ELSE ""

\* _validate_scaling_values: "" when the values pass, else the first check
\* that raises.
ValidateScalingValues(values) ==
    IF \E k \in DOMAIN values : values[k] < 0 THEN "negative"
    ELSE IF values["max"] > MaxSizeLimit THEN "max_limit"
    ELSE IF values["min"] > values["max"] THEN "min_gt_max"
    ELSE IF ~(values["min"] <= values["desired"] /\ values["desired"] <= values["max"])
    THEN "desired_range"
    ELSE ""

\* A style branch that looks for the dash first.
DetectStyleDashFirst(normalized) ==
    IF HasChar(normalized, "-") THEN "dashed"
    ELSE IF HasChar(normalized, ";") THEN "keyed"
    ELSE "unsupported"

\* The style branch of _parse_scaling_values on the lower-cased value.
DetectStyle(normalized) ==
    IF HasChar(normalized, ";") THEN "keyed"
    ELSE IF HasChar(normalized, "-") THEN "dashed"
    ELSE "unsupported"

\* The tuple with desired_capacity and min_size in each other's place.
ReturnTupleSwapped(values) ==
    [max |-> values["max"], desired |-> values["min"], min |-> values["desired"]]

\* The tuple _parse_scaling_values returns, in the order the caller unpacks
\* it: (max_size, desired_capacity, min_size).
ReturnTuple(values) ==
    [max |-> values["max"], desired |-> values["desired"], min |-> values["min"]]

\* _parse_scaling_values.  Every exception is caught and re-raised as one
\* ValueError; `cause` keeps which step raised (the code only logs it).
ParseScalingValues(tag_value) ==
    LET normalized == Lower(tag_value)
        style      == DetectStyle(normalized)
        fail(c)    == [ok |-> FALSE, cause |-> c, max |-> 0, desired |-> 0, min |-> 0]
    IN  IF style = "unsupported" THEN fail("unsupported")
        ELSE LET got == IF style = "keyed" THEN ParseAwsFormat(normalized)
                        ELSE ParseGcpFormat(normalized)
             IN  IF ~got.ok THEN fail(got.err)
                 ELSE LET v == ValidateScalingValues(got.values)
                      IN  IF v # "" THEN fail(v)
                          ELSE [ok |-> TRUE, cause |-> ""] @@ ReturnTuple(got.values)

(***************************************************************************)
(* The cloud, the manager object and the executor.                         *)
(***************************************************************************)

\* Number of resources (ASGs, or node pools of the cluster) of a fleet.
NumRes == 2

\* How many times in a row the tool is invoked.
MaxRuns == 2

\* ThreadPoolExecutor(max_workers=...) of the two fan-outs.
MaxWorkersAws == 10
MaxWorkersGcp == 5

VARIABLES
    cloud_provider,   \* self.cloud_provider: "aws" or "gcp"
    cloud,            \* the provider's state of every resource
    gw,               \* how the gateway answers calls about each resource in this run
    phase,            \* the main thread: "idle", "fanout" or "summary"
    scale_down,       \* self.scale_down
    dry_run,          \* self.dry_run
    matching,         \* matching_asgs / cluster.node_pools: the enumerated snapshots
    task,             \* the futures of the fan-out, one per snapshot
    operations,       \* self.operations
    processed_count,  \* processed_count of the fan-out loop
    run,              \* how many times the tool has been invoked
    start,            \* the cloud as it was when this run was invoked
    calls,            \* per resource, the mutating gateway calls issued in this run
    prev,             \* the previous run: its configuration, input and log
    codec,            \* a payload on its way through format and parse
    waiter,           \* one call of _wait_for_operation
    main,             \* main(): the arguments, how far it is, its exit status
    pool              \* the executors on their own: queued and running threads

vars == <<cloud_provider, cloud, gw, phase, scale_down, dry_run, matching, task,
          operations, processed_count, run, start, calls, prev, codec, waiter, main, pool>>

\* The resources of the account: every one matches the cluster name.
Resources == DOMAIN cloud

\* An optional marker value: <<>> when the key is absent, <<payload>> when
\* it is present.
NoMarker == <<>>
Marker(payload) == <<payload>>

\* One resource as the provider holds it.  An ASG has min/max/desired and
\* its tags; a node pool has its node count (read back as
\* initial_node_count), its autoscaling block, its labels and its managed
\* instance groups.
Res(mn, mx, de, en, mk, gs) ==
    [min |-> mn, max |-> mx, desired |-> de, enabled |-> en, marker |-> mk,
     groups |-> gs]

\* (current_min, current_max, current_desired) as the save path reads them
\* from a snapshot: lines 564-566 for an ASG, 914-923 for a node pool.
CurrentOf(prov, s) ==
    IF prov = "aws" \/ s.enabled
    THEN [min |-> s.min, max |-> s.max, desired |-> s.desired]
    ELSE [min |-> s.desired, max |-> s.desired, desired |-> s.desired]

\* The payloads resources carry before the first run.
SavedAws == FormatAws(4, 2, 1)
SavedGcp == FormatGcp(4, 2, 1)
Garbage == <<"o", "f", "f">>

\* The ASGs and node pools a fleet starts from: one at zero, one in use, one
\* scaled down by an earlier run, one whose marker is not a payload.
CoreTemplates(prov) ==
    IF prov = "aws"
    THEN { Res(0, 0, 0, TRUE, NoMarker, <<>>),
           Res(1, 4, 2, TRUE, NoMarker, <<>>),
           Res(0, 0, 0, TRUE, Marker(SavedAws), <<>>),
           Res(0, 0, 0, TRUE, Marker(Garbage), <<>>) }
    ELSE { Res(0, 0, 0, FALSE, NoMarker, <<0>>),
           Res(1, 4, 2, TRUE, NoMarker, <<2, 2>>),
           Res(0, 0, 0, FALSE, Marker(SavedGcp), <<0, 0>>),
           Res(0, 0, 0, FALSE, Marker(Garbage), <<0>>) }

\* The ASGs a single resource is drawn from.
AwsTemplates ==
    { Res(0, 0, 0, TRUE, NoMarker, <<>>),
      Res(1, 4, 2, TRUE, NoMarker, <<>>),
      Res(0, 0, 0, TRUE, Marker(SavedAws), <<>>),
      Res(0, MaxSizeLimit + 1, 1, TRUE, NoMarker, <<>>),
      Res(0, 0, 0, TRUE, Marker(Garbage), <<>>),
      Res(2, 5, 3, TRUE, Marker(SavedAws), <<>>) }

\* The node pools a single resource is drawn from: autoscaling on or off,
\* the node count inside or outside the autoscaling range, one or two
\* instance groups.
GcpTemplates ==
    { Res(0, 0, 0, FALSE, NoMarker, <<0>>),
      Res(1, 4, 2, TRUE, NoMarker, <<2, 2>>),
      Res(0, 0, 0, FALSE, Marker(SavedGcp), <<0, 0>>),
      Res(0, 0, 3, FALSE, NoMarker, <<3>>),
      Res(2, 5, 1, TRUE, NoMarker, <<1>>),
      Res(0, 0, 0, FALSE, Marker(Garbage), <<0>>),
      Res(2, 5, 3, TRUE, Marker(SavedGcp), <<3>>) }

Templates(prov) == IF prov = "aws" THEN AwsTemplates ELSE GcpTemplates

NoTarget == [max |-> 0, desired |-> 0, min |-> 0]

\* A future that has been submitted and not started.  `err` is the error
\* the worker or the fan-out loop logs for it, "" while there is none.
\* `groupops` is where the operations returned by igm_client.resize stand:
\* "none" while no resize was accepted, then "running", then "done".
NewTask ==
    [pc |-> "submitted", tgt |-> NoTarget, labels |-> NoMarker,
     result |-> "none", err |-> "", collected |-> FALSE, groupops |-> "none"]

NoPrev ==
    [scale_down |-> FALSE, dry_run |-> FALSE, gw |-> <<>>,
     start |-> <<>>, operations |-> <<>>, result |-> <<>>]

\* No payload is being converted.
CodecIdle ==
    [pc |-> "idle", style |-> "keyed", max |-> 0, desired |-> 0, min |-> 0,
     pairs |-> <<>>,
     payload |-> <<>>, result |-> [ok |-> FALSE, cause |-> "", max |-> 0,
                                  desired |-> 0, min |-> 0]]

\* No operation is being waited for.
WaiterIdle ==
    [pc |-> "idle", timeout |-> 0, elapsed |-> 0, polls |-> 0, status |-> "none",
     raised |-> "none"]

\* A command line: --cluster-name, --account and --region ("" when the
\* option is empty or not given).
Config(name, account, region) ==
    [cluster_name |-> name, account |-> account, region |-> region]

\* main() where it stands: "start", "constructed", "managing" or "exited",
\* whether the candidates were listed, and the exit status with the error
\* logged for it.
MainWith(cfg) ==
    [pc |-> "start", cfg |-> cfg, listed |-> FALSE, exit |-> "none", err |-> ""]

\* A command line with every option given.
MainIdle == MainWith(Config("c", "a", "r"))

\* No executor is followed on its own.
PoolIdle ==
    [pc |-> "idle", list |-> <<>>, groups |-> 0, worker |-> <<>>, inner |-> <<>>]

\* The state after construction: n resources, of the fleet's kinds (core)
\* or of any kind.
InitWith(n, core) ==
    /\ cloud_provider \in {"aws", "gcp"}
    /\ cloud \in [1..n -> IF core THEN CoreTemplates(cloud_provider)
                                ELSE Templates(cloud_provider)]
    /\ gw = [r \in 1..n |-> "up"]
    /\ phase = "idle"
    /\ scale_down = FALSE
    /\ dry_run = FALSE
    /\ matching = <<>>
    /\ task = <<>>
    /\ operations = <<>>
    /\ processed_count = 0
    /\ run = 0
    /\ start = cloud
    /\ calls = [r \in 1..n |-> <<>>]
    /\ prev = NoPrev
    /\ codec = CodecIdle
    /\ waiter = WaiterIdle
    /\ main = MainIdle
    /\ pool = PoolIdle

\* A fleet of NumRes resources.
Init == InitWith(NumRes, TRUE)

\* One resource, of any kind.
InitSolo == InitWith(1, FALSE)

(***************************************************************************)
(* The gateway.  Within one run the gateway is, for each resource, up      *)
(* (every call succeeds and every operation completes), down (every call   *)
(* raises) or flaky (each call and each wait may end either way).          *)
(***************************************************************************)
GwKinds == {"up", "down", "flaky"}

\* Whether a call about resource r returns (TRUE) or raises ClientError /
\* GoogleAPIError (FALSE).
CallOutcomes(r) ==
    CASE gw[r] = "up" -> {TRUE}
      [] gw[r] = "down" -> {FALSE}
      [] OTHER -> BOOLEAN

\* How _wait_for_operation ends for an operation on resource r: the poll
\* loop sees DONE ("done"), sees ABORTING ("aborting"), runs out of time
\* ("timeout"), or get_operation itself raises ("error").
WaitOutcomes(r) ==
    CASE gw[r] = "up" -> {"done"}
      [] gw[r] = "down" -> {"error"}
      [] OTHER -> {"done", "aborting", "timeout", "error"}

\* A provider on which removing the marker has no effect.
ApplyOpKeepsMarker(rs, kind, tgt, labels) ==
    CASE kind = "write_marker" -> [rs EXCEPT !.marker = labels]
      [] kind = "set_size" -> [rs EXCEPT !.desired = tgt.desired]
      [] kind = "set_autoscaling" ->
            IF tgt.min = 0 /\ tgt.max = 0
            THEN [rs EXCEPT !.enabled = FALSE, !.min = 0, !.max = 0]
            ELSE [rs EXCEPT !.enabled = TRUE, !.min = tgt.min, !.max = tgt.max]
      [] kind = "update_asg" ->
            [rs EXCEPT !.min = tgt.min, !.max = tgt.max, !.desired = tgt.desired]
      [] OTHER -> rs

\* The effect of a completed long-running operation, or of a synchronous
\* mutation, on a resource: the request each call site builds.
ApplyOp(rs, kind, tgt, labels) ==
    CASE kind = "write_marker" -> [rs EXCEPT !.marker = labels]
      [] kind = "delete_marker" -> [rs EXCEPT !.marker = NoMarker]
      [] kind = "set_size" -> [rs EXCEPT !.desired = tgt.desired]
      [] kind = "set_autoscaling" ->
            IF tgt.min = 0 /\ tgt.max = 0
            THEN [rs EXCEPT !.enabled = FALSE, !.min = 0, !.max = 0]
            ELSE [rs EXCEPT !.enabled = TRUE, !.min = tgt.min, !.max = tgt.max]
      [] kind = "update_asg" ->
            [rs EXCEPT !.min = tgt.min, !.max = tgt.max, !.desired = tgt.desired]
      [] OTHER -> rs

(***************************************************************************)
(* The manager.                                                            *)
(***************************************************************************)

\* ScalingOperation(resource_name, current_size, target_size, min_size,
\* max_size, provider).
ScalingOperation(name, cur, tgt, mn, mx, prov) ==
    [resource_name |-> name, current_size |-> cur, target_size |-> tgt,
     min_size |-> mn, max_size |-> mx, provider |-> prov]

\* An _add_operation that records only in a dry run.
AddOperationDryOnly(ops, op, dry) == IF dry THEN Append(ops, op) ELSE ops

\* _add_operation: the append; self.dry_run only selects the log line.
AddOperation(ops, op, dry) == Append(ops, op)

\* A guard that lets a dry run through.
AlwaysLive(dry) == TRUE

\* `if not self.dry_run:`, the guard of every mutating block.
Live(dry) == ~dry

\* A save path without the "already at 0" test.
NeverZero(c) == FALSE

\* The "already at 0" test of the two save paths.
AlreadyZero(c) == c.desired = 0 /\ c.min = 0 /\ c.max = 0

\* A scale-down that leaves the maximum at 1.
ZeroTargetKeepsMax == [max |-> 1, desired |-> 0, min |-> 0]

\* The capacity both save paths scale to: MinSize=0, MaxSize=0,
\* DesiredCapacity=0 for an ASG, (0, 0, 0) for a node pool.
ZeroTarget == [max |-> 0, desired |-> 0, min |-> 0]

\* What the restore path finds under the marker key: `if off_hours_previous:`
\* for an ASG (an absent tag and an empty value both count as none),
\* `if self.tag_name in ...labels` for a node pool.
HasSaved(prov, mk) ==
    IF prov = "aws" THEN mk # NoMarker /\ mk[1] # <<>> ELSE mk # NoMarker

\* The unpacking with max_size and min_size in each other's place.
UnpackSwapped(p) == [max |-> p.min, desired |-> p.desired, min |-> p.max]

\* max_size, desired_capacity, min_size = self._parse_scaling_values(...)
Unpack(p) == [max |-> p.max, desired |-> p.desired, min |-> p.min]

\* A worker that decides to leave the resource alone; e is the error it
\* logs, "" when there is none.
NoOpDecision(prov, s, e) ==
    [kind |-> "NoOp", err |-> e, tgt |-> NoTarget, labels |-> NoMarker,
     op |-> ScalingOperation(s.id, 0, 0, 0, 0, prov)]

\* A save path that leaves a marker it finds on the resource in place.
SaveDecisionKeepsMarker(prov, s) ==
    LET cur == CurrentOf(prov, s)
    IN  IF AlreadyZero(cur) THEN NoOpDecision(prov, s, "")
        ELSE [kind |-> "SaveAndZero", err |-> "", tgt |-> ZeroTarget,
              labels |-> IF s.marker # NoMarker THEN s.marker
                         ELSE Marker(FormatFor(prov, cur.max, cur.desired, cur.min)),
              op |-> ScalingOperation(s.id, cur.desired, 0, cur.min, cur.max, prov)]

\* The save path on a snapshot s: the zero test, the payload and the
\* ScalingOperation record.
SaveDecision(prov, s) ==
    LET cur == CurrentOf(prov, s)
    IN  IF AlreadyZero(cur) THEN NoOpDecision(prov, s, "")
        ELSE [kind |-> "SaveAndZero", err |-> "", tgt |-> ZeroTarget,
              labels |-> Marker(FormatFor(prov, cur.max, cur.desired, cur.min)),
              op |-> ScalingOperation(s.id, cur.desired, 0, cur.min, cur.max, prov)]

\* A restore path that does not look at the outcome of the parsing.
RestoreAnyway(prov, s, p) ==
    [kind |-> "RestoreFromSaved", err |-> "", tgt |-> Unpack(p),
     labels |-> NoMarker,
     op |-> ScalingOperation(s.id, s.desired, p.desired, p.min, p.max, prov)]

\* The restore path on a snapshot s whose marker parsed to p: ValueError is
\* logged and the worker returns False, else the record is built from the
\* parsed values.
RestoreDecision(prov, s, p) ==
    IF ~p.ok THEN NoOpDecision(prov, s, "parse")
    ELSE [kind |-> "RestoreFromSaved", err |-> "", tgt |-> Unpack(p),
          labels |-> NoMarker,
          op |-> ScalingOperation(s.id, s.desired, p.desired, p.min, p.max, prov)]

\* The decision of a worker about the snapshot s of a resource whose marker
\* reads mk: what it is (NoOp, SaveAndZero, RestoreFromSaved), the record
\* it appends, the capacity it will set, the marker it will write, and
\* the error it logs when the marker does not parse.
Decision(prov, sd, s, mk) ==
    IF sd THEN SaveDecision(prov, s)
    ELSE IF ~HasSaved(prov, mk) THEN NoOpDecision(prov, s, "")
    ELSE RestoreDecision(prov, s, ParseScalingValues(mk[1]))

\* Except clauses that swallow the exception and return True.
OnErrorIgnored(prov, sd, exc) == "true"

\* What the except clauses around a step make of an exception: False
\* returned ("false") or the exception leaving the worker ("raised").
\* _process_aws_asg catches ClientError everywhere; _process_gcp_node_pool
\* catches GoogleAPIError only around the restore branch, and TimeoutError
\* nowhere.
OnError(prov, sd, exc) ==
    IF prov = "aws" THEN "false"
    ELSE IF ~sd /\ exc = "api" THEN "false"
    ELSE "raised"

\* A worker returns res.
Finish(t, res) == [t EXCEPT !.pc = "returned", !.result = res]

\* A worker that swallows the exception and returns True.
FailQuiet(t, prov, sd, exc) == [t EXCEPT !.pc = "returned", !.result = "true"]

\* A worker ends on the exception exc.
Fail(t, prov, sd, exc) ==
    [t EXCEPT !.pc = "returned", !.result = OnError(prov, sd, exc), !.err = exc]

\* The snapshot the enumeration keeps of resource r.
Snapshot(r) == [id |-> r] @@ cloud[r]

MaxWorkers == IF cloud_provider = "aws" THEN MaxWorkersAws ELSE MaxWorkersGcp

Started == {j \in DOMAIN task : task[j].pc \notin {"submitted", "returned"}}

\* The log of a call about r that is not waited for: whether it returned.
LogCall(r, kind, ok) ==
    [calls EXCEPT ![r] = Append(@, [kind |-> kind, ok |-> ok, wait |-> "none"])]

\* The log of a call about r that returned an operation, with the way
\* _wait_for_operation ended for it.
LogWait(r, kind, out) ==
    [calls EXCEPT ![r] = Append(@, [kind |-> kind, ok |-> TRUE, wait |-> out])]

\* The first position of a live worker after its decision.
FirstStep(prov, sd) ==
    IF sd THEN "save_state" ELSE IF prov = "aws" THEN "update" ELSE "set_size"

\* The worker's state after a decision d: it returns False on NoOp, True in
\* a dry run, and goes on to its first mutating call otherwise.
Decided(t, d, prov, sd, dry) ==
    IF d.kind = "NoOp" THEN [Finish(t, "false") EXCEPT !.err = d.err]
    ELSE IF Live(dry)
    THEN [t EXCEPT !.pc = FirstStep(prov, sd), !.tgt = d.tgt, !.labels = d.labels]
    ELSE Finish(t, "true")

\* The candidates are enumerated and one future per candidate is
\* submitted, against a gateway that answers as g, in the mode (sd, dr).
Fanout(sd, dr, g) ==
    /\ phase \in {"idle", "summary"}
    /\ prev' = IF run = 0 THEN NoPrev
               ELSE [scale_down |-> scale_down, dry_run |-> dry_run, gw |-> gw,
                     start |-> start, operations |-> operations,
                     result |-> [i \in DOMAIN task |-> task[i].result]]
    /\ run' = run + 1
    /\ scale_down' = sd
    /\ dry_run' = dr
    /\ gw' = g
    /\ matching' = [r \in Resources |-> Snapshot(r)]
    /\ task' = [r \in Resources |-> NewTask]
    /\ operations' = <<>>
    /\ processed_count' = 0
    /\ start' = cloud
    /\ calls' = [r \in Resources |-> <<>>]
    /\ phase' = "fanout"
    /\ UNCHANGED <<cloud_provider, cloud, codec, waiter, pool>>

\* main() up to the fan-out: a NodeGroupManager is constructed, the
\* candidates are enumerated and one future per candidate is submitted.
Invoke(sd, dr, g) == Fanout(sd, dr, g) /\ UNCHANGED main

\* _process_aws_asg up to its first gateway call: the decision taken from
\* the enumerated ASG, the ScalingOperation record and the dry-run return.
AwsDecide(i) ==
    /\ phase = "fanout" /\ cloud_provider = "aws"
    /\ task[i].pc = "submitted"
    /\ Cardinality(Started) < MaxWorkers
    /\ LET d == Decision("aws", scale_down, matching[i], matching[i].marker)
       IN  /\ operations' = IF d.kind = "NoOp" THEN operations
                            ELSE AddOperation(operations, d.op, dry_run)
           /\ task' = [task EXCEPT ![i] = Decided(@, d, "aws", scale_down, dry_run)]
    /\ UNCHANGED <<cloud_provider, cloud, gw, phase, scale_down, dry_run, matching,
                   processed_count, run, start, calls, prev, codec, waiter, main, pool>>

\* A synchronous ASG call of a worker at position `at`: create_or_update_tags,
\* update_auto_scaling_group or delete_tags.  On success the worker moves to
\* `next` ("returned": it returns True); on ClientError it returns False.
AwsCall(i, at, kind, next) ==
    /\ phase = "fanout" /\ cloud_provider = "aws"
    /\ task[i].pc = at
    /\ LET r == matching[i].id
       IN  \E ok \in CallOutcomes(r) :
              /\ calls' = LogCall(r, kind, ok)
              /\ IF ok
                 THEN /\ cloud' = [cloud EXCEPT ![r] =
                                      ApplyOp(@, kind, task[i].tgt, task[i].labels)]
                      /\ task' = [task EXCEPT ![i] =
                                      IF next = "returned" THEN Finish(@, "true")
                                      ELSE [@ EXCEPT !.pc = next]]
                 ELSE /\ task' = [task EXCEPT ![i] = Fail(@, "aws", scale_down, "api")]
                      /\ UNCHANGED cloud
    /\ UNCHANGED <<cloud_provider, gw, phase, scale_down, dry_run, matching,
                   operations, processed_count, run, start, prev, codec, waiter, main, pool>>

\* Lines 588-601: the state is saved to the tag.
AwsSaveTag(i) == AwsCall(i, "save_state", "write_marker", "zero")

\* Lines 603-612: the ASG is set to 0/0/0.
AwsScaleToZero(i) == AwsCall(i, "zero", "update_asg", "returned")

\* Lines 420-427: the ASG is set to the parsed values.
AwsUpdate(i) == AwsCall(i, "update", "update_asg", "delete_marker")

\* Lines 429-440: the tag is removed.
AwsDeleteTag(i) == AwsCall(i, "delete_marker", "delete_marker", "returned")

\* A worker that stays on its exception and never ends.
RaiseHung(t, exc) == [t EXCEPT !.pc = "hung", !.err = exc]

\* An exception leaves the worker: future.result() raises it in the fan-out
\* loop, which logs it.
Raise(t, exc) == [t EXCEPT !.pc = "returned", !.result = "raised", !.err = exc]

\* _process_gcp_node_pool up to its first mutating call: get_node_pool, the
\* decision, the ScalingOperation record and the dry-run return.  The
\* capacity comes from the enumerated node_pool, the labels from the fresh
\* node_pool_details.
GcpDecide(i) ==
    /\ phase = "fanout" /\ cloud_provider = "gcp"
    /\ task[i].pc = "submitted"
    /\ Cardinality(Started) < MaxWorkers
    /\ LET r == matching[i].id
           d == Decision("gcp", scale_down, matching[i], cloud[r].marker)
       IN  \E ok \in CallOutcomes(r) :
             IF ~ok
             THEN /\ task' = [task EXCEPT ![i] = Raise(@, "api")]
                  /\ UNCHANGED operations
             ELSE /\ operations' = IF d.kind = "NoOp" THEN operations
                                   ELSE AddOperation(operations, d.op, dry_run)
                  /\ task' = [task EXCEPT ![i] = Decided(@, d, "gcp", scale_down, dry_run)]
    /\ UNCHANGED <<cloud_provider, cloud, gw, phase, scale_down, dry_run, matching,
                   processed_count, run, start, calls, prev, codec, waiter, main, pool>>

\* A worker that issues the step it has just finished once more.
AfterStepAgain(at, sd, tgt) == at

\* Where a node-pool worker goes after a step that has returned.
AfterStep(at, sd, tgt) ==
    CASE at = "save_state" -> "set_size"
      [] at = "set_size" -> "set_autoscaling"
      [] at = "set_autoscaling" ->
            IF sd THEN "resize_groups"
            ELSE IF tgt.desired > 0 THEN "resize_groups" ELSE "remove_label"
      [] OTHER -> "returned"

\* A node-pool call that starts a long-running operation (update_node_pool,
\* set_node_pool_size or set_node_pool_autoscaling) and the
\* _wait_for_operation that follows it.  The call may raise.  The wait
\* returns None on DONE and on ABORTING alike, raises TimeoutError when the
\* time is up, and lets a GoogleAPIError of get_operation through.  The
\* provider has applied the change when the operation is DONE.
GcpCall(i, at, kind) ==
    /\ phase = "fanout" /\ cloud_provider = "gcp"
    /\ task[i].pc = at
    /\ LET r    == matching[i].id
           t    == task[i]
           next == AfterStep(at, scale_down, t.tgt)
           go   == IF next = "returned" THEN Finish(t, "true")
                   ELSE [t EXCEPT !.pc = next]
       IN  \E ok \in CallOutcomes(r) :
              IF ~ok
              THEN /\ calls' = LogCall(r, kind, FALSE)
                   /\ task' = [task EXCEPT ![i] = Fail(@, "gcp", scale_down, "api")]
                   /\ UNCHANGED cloud
              ELSE \E out \in WaitOutcomes(r) :
                     /\ calls' = LogWait(r, kind, out)
                     /\ \/ /\ out = "done"
                           /\ cloud' = [cloud EXCEPT ![r] = ApplyOp(@, kind, t.tgt, t.labels)]
                           /\ task' = [task EXCEPT ![i] = go]
                        \/ /\ out = "aborting"
                           /\ task' = [task EXCEPT ![i] = go]
                           /\ UNCHANGED cloud
                        \/ /\ out = "timeout"
                           /\ task' = [task EXCEPT ![i] = Fail(@, "gcp", scale_down, "timeout")]
                           /\ UNCHANGED cloud
                        \/ /\ out = "error"
                           /\ task' = [task EXCEPT ![i] = Fail(@, "gcp", scale_down, "api")]
                           /\ UNCHANGED cloud
    /\ UNCHANGED <<cloud_provider, gw, phase, scale_down, dry_run, matching,
                   operations, processed_count, run, start, prev, codec, waiter, main, pool>>

\* Lines 952-961: the state is saved to the label.
GcpSaveLabel(i) == GcpCall(i, "save_state", "write_marker")

\* Lines 995-1002: set_node_pool_size.
GcpSetSize(i) == GcpCall(i, "set_size", "set_size")

\* Lines 1004-1026: set_node_pool_autoscaling.
GcpSetAutoscaling(i) == GcpCall(i, "set_autoscaling", "set_autoscaling")

\* Lines 1036-1044: the label is removed.
GcpRemoveLabel(i) == GcpCall(i, "remove_label", "delete_marker")

\* The resize operations after the calls: running when a call was accepted.
GroupOpsAfter(done) == IF done = {} THEN "none" ELSE "running"

\* The sizes of the instance groups after _resize_single_instance_group has
\* been called for each of them and has succeeded for those in `done`.
Resized(gs, done, size) == [g \in DOMAIN gs |-> IF g \in done THEN size ELSE gs[g]]

\* _resize_instance_groups with the calls it makes (and, on the restore
\* path, the get_node_pool before it).  One group: the resize is called
\* directly and its exception leaves the method.  Several groups: they are
\* resized from a pool of their own and every exception is logged and
\* dropped.  The resize operations are not waited for: the accepted ones
\* are left running.
GcpResizeGroups(i) ==
    /\ phase = "fanout" /\ cloud_provider = "gcp"
    /\ task[i].pc = "resize_groups"
    /\ LET r    == matching[i].id
           t    == task[i]
           gs   == cloud[r].groups
           n    == Len(gs)
           size == IF scale_down THEN 0 ELSE t.tgt.desired
           go   == IF scale_down THEN Finish(t, "true")
                   ELSE [t EXCEPT !.pc = "remove_label"]
       IN  \E got \in (IF scale_down THEN {TRUE} ELSE CallOutcomes(r)) :
             IF ~got
             THEN /\ task' = [task EXCEPT ![i] = Fail(@, "gcp", scale_down, "api")]
                  /\ UNCHANGED <<cloud, calls>>
             ELSE \E done \in SUBSET (1..n) :
                    /\ \A g \in 1..n : (g \in done) \in CallOutcomes(r)
                    /\ calls' = LogCall(r, "resize_groups", done = 1..n)
                    /\ cloud' = [cloud EXCEPT ![r].groups = Resized(@, done, size)]
                    /\ task' = [task EXCEPT ![i] =
                          IF n = 1 /\ done = {}
                          THEN Fail(t, "gcp", scale_down, "api")
                          ELSE [go EXCEPT !.groupops = GroupOpsAfter(done)]]
    /\ UNCHANGED <<cloud_provider, gw, phase, scale_down, dry_run, matching,
                   operations, processed_count, run, start, prev, codec, waiter, main, pool>>

\* The provider finishes the resize operations of the instance groups of
\* resource i, which no thread of the tool is waiting for.  They are
\* followed while the run lasts.
GroupOpsComplete(i) ==
    /\ phase = "fanout"
    /\ task[i].groupops = "running"
    /\ task' = [task EXCEPT ![i].groupops = "done"]
    /\ UNCHANGED <<cloud_provider, cloud, gw, phase, scale_down, dry_run, matching,
                   operations, processed_count, run, start, calls, prev, codec, waiter, main, pool>>

\* A loop that reads a future whether or not it is done.
CollectEarly(i) ==
    /\ phase = "fanout"
    /\ ~task[i].collected
    /\ task' = [task EXCEPT ![i].collected = TRUE]
    /\ processed_count' = IF task[i].result = "true" THEN processed_count + 1
                          ELSE processed_count
    /\ UNCHANGED <<cloud_provider, cloud, gw, phase, scale_down, dry_run, matching,
                   operations, run, start, calls, prev, codec, waiter, main, pool>>

\* One turn of the `for future in as_completed(futures)` loop: the result
\* of a finished future is read; True adds to processed_count, an
\* exception is logged.
Collect(i) ==
    /\ phase = "fanout"
    /\ task[i].pc = "returned"
    /\ ~task[i].collected
    /\ task' = [task EXCEPT ![i].collected = TRUE]
    /\ processed_count' = IF task[i].result = "true" THEN processed_count + 1
                          ELSE processed_count
    /\ UNCHANGED <<cloud_provider, cloud, gw, phase, scale_down, dry_run, matching,
                   operations, run, start, calls, prev, codec, waiter, main, pool>>

\* The loop has read every future and the executor has shut down: the
\* summary is logged.
Summary ==
    /\ phase = "fanout"
    /\ \A i \in DOMAIN task : task[i].collected
    /\ phase' = "summary"
    /\ UNCHANGED <<cloud_provider, cloud, gw, scale_down, dry_run, matching, task,
                   operations, processed_count, run, start, calls, prev, codec, waiter, main, pool>>

\* The steps of the workers and of the main thread's loop.
Steps ==
    \/ \E i \in Resources : AwsDecide(i)
    \/ \E i \in Resources : AwsSaveTag(i)
    \/ \E i \in Resources : AwsScaleToZero(i)
    \/ \E i \in Resources : AwsUpdate(i)
    \/ \E i \in Resources : AwsDeleteTag(i)
    \/ \E i \in Resources : GcpDecide(i)
    \/ \E i \in Resources : GcpSaveLabel(i)
    \/ \E i \in Resources : GcpSetSize(i)
    \/ \E i \in Resources : GcpSetAutoscaling(i)
    \/ \E i \in Resources : GcpResizeGroups(i)
    \/ \E i \in Resources : GcpRemoveLabel(i)
    \/ \E i \in Resources : GroupOpsComplete(i)
    \/ \E i \in Resources : Collect(i)
    \/ Summary

\* A gateway that answers resource k in the way `kind` and is up for every
\* other resource.
OneFault(k, kind) == [r \in Resources |-> IF r = k THEN kind ELSE "up"]

\* One invocation of the tool, in either mode, dry or live, against a
\* gateway that is up, or down or flaky for one resource.
InvokeOnce ==
    /\ run = 0
    /\ \E sd \in BOOLEAN, dr \in BOOLEAN, k \in Resources, kind \in GwKinds :
          Invoke(sd, dr, OneFault(k, kind))

\* The tool is invoked against a gateway that is up, or down for one
\* resource; after a run has ended the same command is given again, with or
\* without --dry-run, and the gateway answers as before.
InvokeAgain ==
    /\ run < MaxRuns
    /\ \E sd \in BOOLEAN, dr \in BOOLEAN, k \in Resources, kind \in {"up", "down"} :
          /\ run > 0 => sd = scale_down /\ OneFault(k, kind) = gw
          /\ Invoke(sd, dr, OneFault(k, kind))

\* One resource, invoked again and again against any gateway.
InvokeSolo ==
    /\ run < MaxRuns
    /\ \E sd \in BOOLEAN, dr \in BOOLEAN, g \in [Resources -> GwKinds] :
          Invoke(sd, dr, g)

Next == InvokeOnce \/ Steps

NextRerun == InvokeAgain \/ Steps

NextSolo == InvokeSolo \/ Steps

\* One run over a fleet.
Spec == Init /\ [][Next]_vars

\* The same command repeated over a fleet.
SpecRerun == Init /\ [][NextRerun]_vars

\* Consecutive runs over one resource.
SpecSolo == InitSolo /\ [][NextSolo]_vars

(***************************************************************************)
(* main(): the command line is validated, the candidates are listed, the   *)
(* fan-out runs and the process exits.                                     *)
(***************************************************************************)

\* Number of resources of the fleet main() is followed on.
NumMain == 1

\* The command lines: each of the three options given or not.
Configs ==
    { Config(n, a, r) : n \in {"", "c"}, a \in {"", "a"}, r \in {"", "r"} }

\* A validation that only looks at the cluster name.
ValidateNameOnly(prov, cfg) == IF cfg.cluster_name = "" THEN "name" ELSE ""

\* validate_inputs: "" when the inputs pass, else the check that raises
\* ValidationError.
ValidateInputs(prov, cfg) ==
    IF cfg.cluster_name = "" THEN "name"
    ELSE IF prov = "gcp" /\ cfg.account = "" THEN "project"
    ELSE IF prov = "aws" /\ cfg.region = "" THEN "region"
    ELSE ""

\* An exit status that tells only a ValidationError.
ExitStatusOfConfig(err) == IF err = "validation" THEN "1" ELSE "0"

\* The exit status of the process: sys.exit(1) in both except clauses of
\* main(), 0 when main() returns.
ExitStatus(err) == IF err = "" THEN "0" ELSE "1"

\* main() ends on the error err, or returns when err is "".
Exited(m, err) == [m EXCEPT !.pc = "exited", !.err = err, !.exit = ExitStatus(err)]

\* The resources main() is followed on: in use and carrying the payload of
\* an earlier run, so that either mode acts on them, or carrying a marker
\* that is not a payload.
MainTemplates(prov) ==
    IF prov = "aws"
    THEN { Res(2, 5, 3, TRUE, Marker(SavedAws), <<>>),
           Res(0, 0, 0, TRUE, Marker(Garbage), <<>>) }
    ELSE { Res(2, 5, 3, TRUE, Marker(SavedGcp), <<3>>),
           Res(0, 0, 0, FALSE, Marker(Garbage), <<0>>) }

InitMain ==
    /\ cloud_provider \in {"aws", "gcp"}
    /\ cloud \in [1..NumMain -> MainTemplates(cloud_provider)]
    /\ gw = [r \in 1..NumMain |-> "up"]
    /\ phase = "idle"
    /\ scale_down = FALSE
    /\ dry_run = FALSE
    /\ matching = <<>>
    /\ task = <<>>
    /\ operations = <<>>
    /\ processed_count = 0
    /\ run = 0
    /\ start = cloud
    /\ calls = [r \in 1..NumMain |-> <<>>]
    /\ prev = NoPrev
    /\ codec = CodecIdle
    /\ waiter = WaiterIdle
    /\ main \in {MainWith(cfg) : cfg \in Configs}
    /\ pool = PoolIdle

\* NodeGroupManager.__init__ with --scale-down and --dry-run given or not:
\* the arguments are stored and validate_inputs is called; its
\* ValidationError ends main().
Construct ==
    /\ main.pc = "start"
    /\ \E sd \in BOOLEAN, dr \in BOOLEAN :
          /\ scale_down' = sd
          /\ dry_run' = dr
    /\ main' = IF ValidateInputs(cloud_provider, main.cfg) # ""
               THEN Exited(main, "validation")
               ELSE [main EXCEPT !.pc = "constructed"]
    /\ UNCHANGED <<cloud_provider, cloud, gw, phase, matching, task, operations,
                   processed_count, run, start, calls, prev, codec, waiter, pool>>

\* manage_node_groups up to the fan-out.  The listing call raises, and the
\* exception is raised again up to main(); or it lists no candidate (no ASG
\* matches, the cluster is not found or has no node pool) and the summary
\* follows at once; or it lists the fleet.
Enumerate ==
    /\ main.pc = "constructed"
    /\ \/ /\ main' = [Exited(main, "gateway") EXCEPT !.listed = TRUE]
          /\ UNCHANGED <<cloud_provider, cloud, gw, phase, scale_down, dry_run,
                         matching, task, operations, processed_count, run, start,
                         calls, prev, codec, waiter, pool>>
       \/ /\ main' = [main EXCEPT !.pc = "managing", !.listed = TRUE]
          /\ phase' = "summary"
          /\ UNCHANGED <<cloud_provider, cloud, gw, scale_down, dry_run,
                         matching, task, operations, processed_count, run, start,
                         calls, prev, codec, waiter, pool>>
       \/ /\ main' = [main EXCEPT !.pc = "managing", !.listed = TRUE]
          /\ \E g \in [Resources -> {"up", "flaky"}] : Fanout(scale_down, dry_run, g)

\* main() returns after the summary.
Return ==
    /\ main.pc = "managing"
    /\ phase = "summary"
    /\ main' = Exited(main, "")
    /\ UNCHANGED <<cloud_provider, cloud, gw, phase, scale_down, dry_run,
                   matching, task, operations, processed_count, run, start,
                   calls, prev, codec, waiter, pool>>

NextMain == Construct \/ Enumerate \/ Steps \/ Return

\* A submitted future that the executor can hand to a free worker thread.
DecideReady ==
    /\ phase = "fanout"
    /\ Cardinality(Started) < MaxWorkers
    /\ \E i \in Resources : task[i].pc = "submitted"

\* The scheduling of the threads: main() goes on whenever it can, a worker
\* past its decision takes its next step (every gateway call returns or
\* raises, every wait ends), the as_completed loop collects what has
\* returned, and a free worker thread takes a submitted future.  The last
\* conjunct is weak fairness of the two decision steps with their
\* enabling condition written out as DecideReady.
Scheduling ==
    /\ WF_vars(Construct \/ Enumerate \/ Return \/ Summary)
    /\ WF_vars(\E i \in Resources :
                  \/ AwsSaveTag(i) \/ AwsScaleToZero(i) \/ AwsUpdate(i)
                  \/ AwsDeleteTag(i)
                  \/ GcpSaveLabel(i) \/ GcpSetSize(i) \/ GcpSetAutoscaling(i)
                  \/ GcpResizeGroups(i) \/ GcpRemoveLabel(i)
                  \/ GroupOpsComplete(i) \/ Collect(i))
    /\ \/ []<>(~DecideReady)
       \/ []<><<\E i \in Resources : AwsDecide(i) \/ GcpDecide(i)>>_vars

\* One execution of main() under that scheduling.
SpecMain == InitMain /\ [][NextMain]_vars /\ Scheduling

(***************************************************************************)
(* The thread pools on their own: the futures of one fan-out, the worker    *)
(* threads of the executor that run them, and the threads of the executor   *)
(* that _resize_instance_groups opens inside a worker.                      *)
(***************************************************************************)

\* The instance groups of a node pool are at most this many.
MaxGroups == 2

\* The candidate lists of an enumeration: up to one candidate more than the
\* executor has worker threads, each id listed once or the first id listed
\* a second time.
CandidateLists ==
    { [k \in 1..n |-> IF twice /\ k = 2 THEN 1 ELSE k] :
        n \in 1..(MaxWorkers + 1), twice \in BOOLEAN }

\* The futures a worker thread of the executor is running.
PoolBusy ==
    {k \in DOMAIN pool.worker : pool.worker[k] \in {"running", "resizing", "closing"}}

\* The threads that can be inside a gateway call: the worker threads that
\* are not blocked in the as_completed loop of a nested executor, and the
\* threads of the nested executors.
PoolCallers ==
    Cardinality({k \in DOMAIN pool.worker : pool.worker[k] \in {"running", "closing"}})
    + Cardinality({kj \in (DOMAIN pool.worker) \X (1..MaxGroups) : kj[2] <= pool.inner[kj[1]]})

InitPool ==
    /\ InitWith(1, TRUE)
    /\ cloud[1] = IF cloud_provider = "aws" THEN Res(0, 0, 0, TRUE, NoMarker, <<>>)
                  ELSE Res(0, 0, 0, FALSE, NoMarker, <<0>>)

\* executor.submit for every candidate of the list, as it was enumerated.
PoolSubmit ==
    /\ pool.pc = "idle"
    /\ \E list \in CandidateLists,
          g \in (IF cloud_provider = "gcp" THEN 1..MaxGroups ELSE {0}) :
          pool' = [pc |-> "fanout", list |-> list, groups |-> g,
                   worker |-> [k \in DOMAIN list |-> "queued"],
                   inner |-> [k \in DOMAIN list |-> 0]]
    /\ UNCHANGED <<cloud_provider, cloud, gw, phase, scale_down, dry_run, matching, task,
                   operations, processed_count, run, start, calls, prev, codec, waiter, main>>

\* A worker thread of the executor takes the oldest queued future; there
\* are max_workers threads.
PoolStart(k) ==
    /\ pool.pc = "fanout"
    /\ pool.worker[k] = "queued"
    /\ \A j \in 1..(k - 1) : pool.worker[j] # "queued"
    /\ Cardinality(PoolBusy) < MaxWorkers
    /\ pool' = [pool EXCEPT !.worker[k] = "running"]
    /\ UNCHANGED <<cloud_provider, cloud, gw, phase, scale_down, dry_run, matching, task,
                   operations, processed_count, run, start, calls, prev, codec, waiter, main>>

\* _resize_instance_groups with several instance groups: the worker opens
\* an executor of len(instance_group_urls) threads, submits one resize per
\* group and waits in as_completed.  With one group the worker resizes it
\* itself.
PoolResize(k) ==
    /\ pool.pc = "fanout" /\ cloud_provider = "gcp"
    /\ pool.worker[k] = "running"
    /\ pool' = IF pool.groups = 1
               THEN [pool EXCEPT !.worker[k] = "closing"]
               ELSE [pool EXCEPT !.worker[k] = "resizing", !.inner[k] = pool.groups]
    /\ UNCHANGED <<cloud_provider, cloud, gw, phase, scale_down, dry_run, matching, task,
                   operations, processed_count, run, start, calls, prev, codec, waiter, main>>

\* A thread of a nested executor returns from _resize_single_instance_group;
\* after the last one the worker leaves the with block.
PoolResized(k) ==
    /\ pool.pc = "fanout"
    /\ pool.worker[k] = "resizing" /\ pool.inner[k] > 0
    /\ pool' = [pool EXCEPT !.inner[k] = @ - 1,
                            !.worker[k] = IF pool.inner[k] = 1 THEN "closing" ELSE @]
    /\ UNCHANGED <<cloud_provider, cloud, gw, phase, scale_down, dry_run, matching, task,
                   operations, processed_count, run, start, calls, prev, codec, waiter, main>>

\* A worker returns or raises: without a resize (NoOp, dry run, a failed
\* step, an ASG) or after it.
PoolFinish(k) ==
    /\ pool.pc = "fanout"
    /\ pool.worker[k] \in {"running", "closing"}
    /\ pool' = [pool EXCEPT !.worker[k] = "done"]
    /\ UNCHANGED <<cloud_provider, cloud, gw, phase, scale_down, dry_run, matching, task,
                   operations, processed_count, run, start, calls, prev, codec, waiter, main>>

\* The with block of the executor is left: every future is done.
PoolJoin ==
    /\ pool.pc = "fanout"
    /\ \A k \in DOMAIN pool.worker : pool.worker[k] = "done"
    /\ pool' = [pool EXCEPT !.pc = "joined"]
    /\ UNCHANGED <<cloud_provider, cloud, gw, phase, scale_down, dry_run, matching, task,
                   operations, processed_count, run, start, calls, prev, codec, waiter, main>>

NextPool ==
    \/ PoolSubmit
    \/ \E k \in DOMAIN pool.worker : PoolStart(k)
    \/ \E k \in DOMAIN pool.worker : PoolResize(k)
    \/ \E k \in DOMAIN pool.worker : PoolResized(k)
    \/ \E k \in DOMAIN pool.worker : PoolFinish(k)
    \/ PoolJoin

SpecPool == InitPool /\ [][NextPool]_vars

(***************************************************************************)
(* The codec on its own: a capacity is formatted as the save path formats  *)
(* it and the payload is parsed as the restore path parses it.             *)
(***************************************************************************)

\* The small values a capacity field is drawn from, next to the values
\* around the limit.
MaxSmall == 2

CodecVals == (-1..MaxSmall) \cup {10, MaxSizeLimit - 1, MaxSizeLimit, MaxSizeLimit + 1}

\* 0 <= min <= desired <= max <= 1000.
ValidTriple(mx, de, mn) == 0 <= mn /\ mn <= de /\ de <= mx /\ mx <= MaxSizeLimit

InitCodec ==
    /\ InitWith(1, TRUE)
    /\ cloud_provider = "aws"
    /\ cloud[1] = Res(0, 0, 0, TRUE, NoMarker, <<>>)

\* A capacity reaches the save path.
CodecPick ==
    /\ codec.pc = "idle"
    /\ \E style \in {"keyed", "dashed"}, mx \in CodecVals, de \in CodecVals, mn \in CodecVals :
          codec' = [codec EXCEPT !.pc = "picked", !.style = style,
                                 !.max = mx, !.desired = de, !.min = mn]
    /\ UNCHANGED <<cloud_provider, cloud, gw, phase, scale_down, dry_run, matching, task,
                   operations, processed_count, run, start, calls, prev, waiter, main, pool>>

\* tag_value / label_value of the save path.
CodecFormat ==
    /\ codec.pc = "picked"
    /\ codec' = [codec EXCEPT !.pc = "formatted",
                    !.payload = FormatFor(IF codec.style = "keyed" THEN "aws" ELSE "gcp",
                                          codec.max, codec.desired, codec.min)]
    /\ UNCHANGED <<cloud_provider, cloud, gw, phase, scale_down, dry_run, matching, task,
                   operations, processed_count, run, start, calls, prev, waiter, main, pool>>

\* _parse_scaling_values on the payload.
CodecParse ==
    /\ codec.pc = "formatted"
    /\ codec' = [codec EXCEPT !.pc = "parsed", !.result = ParseScalingValues(codec.payload)]
    /\ UNCHANGED <<cloud_provider, cloud, gw, phase, scale_down, dry_run, matching, task,
                   operations, processed_count, run, start, calls, prev, waiter, main, pool>>

NextCodec == CodecPick \/ CodecFormat \/ CodecParse

\* Format then parse, for every capacity and both styles.
SpecCodec == InitCodec /\ [][NextCodec]_vars

(***************************************************************************)
(* The parser on its own, on payloads that no save path wrote: a payload   *)
(* is a list of fields with their values, in any order, with fields left   *)
(* out or repeated, spelled in either style.                               *)
(***************************************************************************)

\* The longest list of fields a payload is made of.
MaxPairs == 4

Fields == {"max", "desired", "min"}

\* The values of the fields of a list.
ListVals == {0, 1}

\* A field with its value.
Pair(f, v) == [field |-> f, val |-> v]

\* The lists of at most MaxPairs fields, any field any number of times.
PairLists ==
    UNION { [1..n -> {Pair(f, v) : f \in Fields, v \in ListVals}] : n \in 0..MaxPairs }

\* The three fields once each, in every order, with values that are valid
\* together or not.
PermutedTriples ==
    { [i \in 1..3 |-> Pair(q[i], v[i])] :
        q \in {p \in [1..3 -> Fields] : {p[1], p[2], p[3]} = Fields},
        v \in [1..3 -> -1..MaxSmall] }

\* How a field is spelled before its value: the key of the keyed format
\* with its "=", the word of the dashed format.
FieldText(style, f) ==
    IF style = "keyed"
    THEN CASE f = "max" -> TxtMaxSizeEq
           [] f = "desired" -> TxtDesiredCapacityEq
           [] OTHER -> TxtMinSizeEq
    ELSE CASE f = "max" -> TxtMax \o TxtSize
           [] f = "desired" -> TxtDesired \o TxtCapacity
           [] OTHER -> TxtMin \o TxtSize

\* The separator of a style.
Separator(style) == IF style = "keyed" THEN ";" ELSE "-"

\* sep.join(parts).
RECURSIVE Join(_, _)
Join(parts, sep) ==
    IF parts = <<>> THEN <<>>
    ELSE IF Len(parts) = 1 THEN parts[1]
    ELSE parts[1] \o <<sep>> \o Join(Tail(parts), sep)

\* The payload that spells a list of fields in a style.
TagOf(style, pairs) ==
    Join([i \in DOMAIN pairs |-> FieldText(style, pairs[i].field) \o IntToStr(pairs[i].val)],
         Separator(style))

\* A resource carries a payload under the marker key.
ParseGive ==
    /\ codec.pc = "idle"
    /\ \E style \in {"keyed", "dashed"}, pairs \in PairLists \cup PermutedTriples :
          codec' = [codec EXCEPT !.pc = "given", !.style = style, !.pairs = pairs,
                                 !.payload = TagOf(style, pairs)]
    /\ UNCHANGED <<cloud_provider, cloud, gw, phase, scale_down, dry_run, matching, task,
                   operations, processed_count, run, start, calls, prev, waiter, main, pool>>

\* _parse_scaling_values on the payload.
ParseTag ==
    /\ codec.pc = "given"
    /\ codec' = [codec EXCEPT !.pc = "parsed", !.result = ParseScalingValues(codec.payload)]
    /\ UNCHANGED <<cloud_provider, cloud, gw, phase, scale_down, dry_run, matching, task,
                   operations, processed_count, run, start, calls, prev, waiter, main, pool>>

NextParse == ParseGive \/ ParseTag

\* Parse, for every payload of the lists.
SpecParse == InitCodec /\ [][NextParse]_vars

(***************************************************************************)
(* _wait_for_operation on its own.  Time is in seconds since start_time.   *)
(***************************************************************************)

\* time.sleep(5).
PollInterval == 5

\* timeout_seconds: int = 600, which every call site leaves at its default.
DefaultTimeout == 600

\* The longest timeout, in poll intervals, tried next to the default.
MaxIntervals == 3

\* The longest a get_operation call takes, in seconds.
MaxLatency == 1

WaitTimeouts == {k * PollInterval : k \in 1..MaxIntervals} \cup {DefaultTimeout}

\* Operation.Status as the if/elif chain tells it apart:
\* STATUS_UNSPECIFIED=0, PENDING=1, RUNNING=2, DONE=3, ABORTING=4, and any
\* other value.
Statuses == {"unspecified", "pending", "running", "done", "aborting", "unknown"}

\* A chain in which an unrecognised status returns as well.
ReturningWithUnknown == {"done", "aborting", "unknown"}

\* The branches of the chain that return.
ReturningStatuses == {"done", "aborting"}

\* `while time.time() - start_time < timeout_seconds`.
InLoop(elapsed, timeout) == elapsed < timeout

\* A sleep that takes no time.
AfterSleepNone(t) == t

\* The clock after time.sleep(5).
AfterSleep(t) == t + PollInterval

InitWaiter ==
    /\ InitWith(1, TRUE)
    /\ cloud_provider = "gcp"
    /\ cloud[1] = Res(0, 0, 0, FALSE, NoMarker, <<0>>)

\* _wait_for_operation is called: start_time = time.time().
WaitStart ==
    /\ waiter.pc = "idle"
    /\ \E t \in WaitTimeouts :
          waiter' = [WaiterIdle EXCEPT !.pc = "check", !.timeout = t]
    /\ UNCHANGED <<cloud_provider, cloud, gw, phase, scale_down, dry_run, matching, task,
                   operations, processed_count, run, start, calls, prev, codec, main, pool>>

\* The loop condition: the body is entered, or the loop is left and
\* TimeoutError is raised.
WaitCheck ==
    /\ waiter.pc = "check"
    /\ waiter' = IF InLoop(waiter.elapsed, waiter.timeout)
                 THEN [waiter EXCEPT !.pc = "poll"]
                 ELSE [waiter EXCEPT !.pc = "raised", !.raised = "timeout"]
    /\ UNCHANGED <<cloud_provider, cloud, gw, phase, scale_down, dry_run, matching, task,
                   operations, processed_count, run, start, calls, prev, codec, main, pool>>

\* get_operation and the if/elif chain on its status: DONE and ABORTING
\* return, every other status goes to sleep; a GoogleAPIError of the call
\* leaves the function.
WaitPoll ==
    /\ waiter.pc = "poll"
    /\ \E lat \in 0..MaxLatency :
          \/ waiter' = [waiter EXCEPT !.pc = "raised", !.raised = "api",
                                      !.polls = @ + 1, !.elapsed = @ + lat]
          \/ \E st \in Statuses :
                waiter' = [waiter EXCEPT
                              !.pc = IF st \in ReturningStatuses THEN "returned" ELSE "sleep",
                              !.status = st, !.polls = @ + 1, !.elapsed = @ + lat]
    /\ UNCHANGED <<cloud_provider, cloud, gw, phase, scale_down, dry_run, matching, task,
                   operations, processed_count, run, start, calls, prev, codec, main, pool>>

\* time.sleep(5), then back to the loop condition.
WaitSleep ==
    /\ waiter.pc = "sleep"
    /\ waiter' = [waiter EXCEPT !.pc = "check", !.elapsed = AfterSleep(@)]
    /\ UNCHANGED <<cloud_provider, cloud, gw, phase, scale_down, dry_run, matching, task,
                   operations, processed_count, run, start, calls, prev, codec, main, pool>>

NextWaiter == WaitStart \/ WaitCheck \/ WaitPoll \/ WaitSleep

\* One call of _wait_for_operation; the thread that runs it keeps running.
SpecWaiter == InitWaiter /\ [][NextWaiter]_vars /\ WF_vars(NextWaiter)

(***************************************************************************)
(* Properties of the codec.                                                *)
(***************************************************************************)

\* The capacity the codec was given, as a tuple.
CodecTriple == [max |-> codec.max, desired |-> codec.desired, min |-> codec.min]

\* The capacity the parser returned.
CodecResultTriple ==
    [max |-> codec.result.max, desired |-> codec.result.desired, min |-> codec.result.min]

\* C2: for every triple with 0 <= min <= desired <= max <= 1000 and each of
\* the two styles, parsing the payload the save path formats from the triple
\* succeeds and returns the same max, desired and min.
CodecRoundTrip ==
    (codec.pc = "parsed" /\ ValidTriple(codec.max, codec.desired, codec.min))
        => (codec.result.ok /\ CodecResultTriple = CodecTriple)

\* A dashed payload with three different fields, one at the limit, has been
\* formatted and parsed back.
CodecRoundTripWitness ==
    /\ codec.pc = "parsed"
    /\ codec.style = "dashed"
    /\ codec.max = MaxSizeLimit /\ codec.desired = 2 /\ codec.min = 1
    /\ codec.payload = FormatGcp(MaxSizeLimit, 2, 1)
    /\ codec.result.ok

\* C3: the parser returns no triple for a payload that encodes min > max,
\* desired outside [min, max], a negative value or max > 1000, and a triple
\* it does return is the encoded one: nothing is clamped into range.
ParseRejectsInvalidRange ==
    codec.pc = "parsed" =>
        /\ ~ValidTriple(codec.max, codec.desired, codec.min) => ~codec.result.ok
        /\ codec.result.ok => CodecResultTriple = CodecTriple

\* A keyed payload whose only fault is max = 1001 has been parsed and
\* rejected by the limit check.
ParseRejectsInvalidRangeWitness ==
    /\ codec.pc = "parsed"
    /\ codec.style = "keyed"
    /\ codec.max = MaxSizeLimit + 1 /\ codec.desired = 1 /\ codec.min = 0
    /\ ~codec.result.ok
    /\ codec.result.cause = "max_limit"

(***************************************************************************)
(* Properties of the runs.                                                 *)
(***************************************************************************)

\* The capacity (0, 0, 0).
AtZero(c) == c = [min |-> 0, max |-> 0, desired |-> 0]

\* A ScalingOperation record for resource r is in the run's list.
HasRecord(r) == \E j \in DOMAIN operations : operations[j].resource_name = r

\* No mutating call has been issued for r in this run and the provider
\* holds r as it did when the run began.
Untouched(r) == calls[r] = <<>> /\ cloud[r] = start[r]

\* The previous run was a live one in mode sd, the gateway was up for r and
\* r's worker returned True.
PrevDone(r, sd) ==
    /\ run >= 2
    /\ prev.scale_down = sd
    /\ ~prev.dry_run
    /\ prev.gw[r] = "up"
    /\ prev.result[r] = "true"

\* The capacity of r before the previous run.
PrevCapacity(r) == CurrentOf(cloud_provider, prev.start[r])

\* C1: a resource whose capacity satisfies 0 <= min <= desired <= max <= 1000
\* and is not (0, 0, 0), after a live save-and-zero run and a live restore
\* run in both of which the gateway is up, has its original min, max and
\* desired and no marker.
SaveThenRestore ==
    \A r \in Resources :
        ( /\ PrevDone(r, TRUE)
          /\ ValidTriple(PrevCapacity(r).max, PrevCapacity(r).desired, PrevCapacity(r).min)
          /\ ~AtZero(PrevCapacity(r))
          /\ ~scale_down /\ ~dry_run /\ gw[r] = "up"
          /\ phase = "summary" )
        => ( /\ CurrentOf(cloud_provider, cloud[r]) = PrevCapacity(r)
             /\ cloud[r].marker = NoMarker )

\* A resource in use was saved and zeroed by one run and restored by the
\* next, which returned True for it.
SaveThenRestoreWitness ==
    \E r \in Resources :
        /\ PrevDone(r, TRUE)
        /\ PrevCapacity(r) = [min |-> 1, max |-> 4, desired |-> 2]
        /\ start[r].desired = 0 /\ start[r].marker # NoMarker
        /\ ~scale_down /\ ~dry_run /\ gw[r] = "up"
        /\ phase = "summary"
        /\ task[r].result = "true"
        /\ cloud[r].desired = 2

\* C4: every marker a save-and-zero action writes is a payload the restore
\* path's parser accepts, whatever the capacity of the resource was.
SavedMarkerParses ==
    \A r \in Resources :
        ( /\ phase # "idle" /\ scale_down /\ ~dry_run /\ gw[r] = "up"
          /\ \E j \in DOMAIN calls[r] : calls[r][j].kind = "write_marker" )
        => ParseScalingValues(cloud[r].marker[1]).ok

\* C5: in live mode, after a save-and-zero action on a resource has
\* completed with the gateway up, a second save-and-zero action on it issues
\* no mutating call, appends no record, leaves the marker of the first
\* action in place and does not return True.
SecondSaveIsNoOp ==
    \A r \in Resources :
        (PrevDone(r, TRUE) /\ scale_down /\ ~dry_run)
        => ( /\ Untouched(r)
             /\ ~HasRecord(r)
             /\ cloud[r].marker # NoMarker
             /\ task[r].result # "true"
             /\ (task[r].pc = "returned" /\ gw[r] = "up") => task[r].result = "false" )

\* A resource in use was saved and zeroed, and the second live save run
\* has returned False for it with the first marker still on it.
SecondSaveIsNoOpWitness ==
    \E r \in Resources :
        /\ PrevDone(r, TRUE)
        /\ ~AtZero(PrevCapacity(r))
        /\ scale_down /\ ~dry_run /\ gw[r] = "up"
        /\ phase = "summary"
        /\ task[r].result = "false"
        /\ cloud[r].marker =
              Marker(FormatFor(cloud_provider, PrevCapacity(r).max,
                               PrevCapacity(r).desired, PrevCapacity(r).min))

\* C6: a restore action on a resource without a marker issues no mutating
\* call, appends no record and is not counted as processed; and a resource
\* that a live restore has completed on carries no marker, so that the next
\* restore run changes nothing on it.
RestoreWithoutMarkerIsNoOp ==
    \A r \in Resources :
        /\ (phase # "idle" /\ ~scale_down /\ start[r].marker = NoMarker)
              => (Untouched(r) /\ ~HasRecord(r) /\ task[r].result # "true")
        /\ (PrevDone(r, FALSE) /\ ~scale_down)
              => (start[r].marker = NoMarker /\ Untouched(r) /\ ~HasRecord(r))

\* A restore run has completed on a resource and deleted its marker, and
\* the restore run after it has returned False for the resource.
RestoreWithoutMarkerIsNoOpWitness ==
    \E r \in Resources :
        /\ PrevDone(r, FALSE)
        /\ prev.start[r].marker # NoMarker
        /\ ~scale_down /\ ~dry_run /\ gw[r] = "up"
        /\ phase = "summary"
        /\ task[r].result = "false"
        /\ processed_count = 0

\* The current capacity of r as the run enumerated it.
Enumerated(r) == CurrentOf(cloud_provider, matching[r])

\* C7: in save-and-zero mode a resource whose min, max and desired are all
\* zero gets no mutating call (no marker write, no capacity change) and no
\* record, is not counted as processed, and keeps the marker it has.
ZeroIsNoOp ==
    \A r \in Resources :
        (phase # "idle" /\ scale_down /\ AtZero(Enumerated(r)))
        => (Untouched(r) /\ ~HasRecord(r) /\ task[r].result # "true")

\* A live save run has returned False for a resource at zero that carries
\* a marker of an earlier run, next to a resource it did scale down.
ZeroIsNoOpWitness ==
    \E r \in Resources, q \in Resources :
        /\ phase = "summary" /\ scale_down /\ ~dry_run
        /\ AtZero(Enumerated(r))
        /\ start[r].marker # NoMarker /\ cloud[r].marker = start[r].marker
        /\ task[r].result = "false"
        /\ task[q].result = "true"

\* The worker of r, or the fan-out loop for it, has logged a gateway error.
GatewayFailed(r) == task[r].err \in {"api", "timeout"}

\* Every instance group at `size`.
AllGroups(gs, size) == [g \in DOMAIN gs |-> size]

\* The resource a run in which the gateway is up leaves behind, from the
\* state s it had when the run began and the decision d taken on it.
ExpectedState(s, d) ==
    IF d.kind = "NoOp" \/ dry_run THEN s
    ELSE IF scale_down
    THEN [s EXCEPT !.marker = d.labels, !.min = 0, !.max = 0, !.desired = 0,
                   !.enabled = IF cloud_provider = "aws" THEN @ ELSE FALSE,
                   !.groups = AllGroups(@, 0)]
    ELSE [s EXCEPT !.marker = NoMarker, !.min = d.tgt.min, !.max = d.tgt.max,
                   !.desired = d.tgt.desired, !.enabled = TRUE,
                   !.groups = IF d.tgt.desired > 0 THEN AllGroups(@, d.tgt.desired) ELSE @]

\* What a worker returns for the decision d when no call fails.
ExpectedResult(d) == IF d.kind = "NoOp" THEN "false" ELSE "true"

\* The action for the decision d issues a gateway call for the resource: a
\* node pool is always read again, an ASG is only called to be changed.
IssuesCall(d) == cloud_provider = "gcp" \/ (~dry_run /\ d.kind # "NoOp")

\* The end of the run for r, whose decision would be d: with the gateway up
\* it is the expected one; with the gateway down r is unchanged and is
\* reported failed exactly when its action issues a call.
EndsAsExpected(r, d) ==
    CASE gw[r] = "up" ->
            /\ cloud[r] = ExpectedState(start[r], d)
            /\ task[r].result = ExpectedResult(d)
            /\ task[r].err = d.err
      [] gw[r] = "down" ->
            /\ cloud[r] = start[r]
            /\ GatewayFailed(r) <=> IssuesCall(d)
            /\ task[r].result # "true" <=> (IssuesCall(d) \/ d.kind = "NoOp")
      [] OTHER -> TRUE

\* C8 as stated: in a run in which every gateway call for resource k fails
\* and every other call succeeds, the resources reported as failed are
\* exactly k.
ExactlyKFailed ==
    \A k \in Resources :
        (phase = "summary" /\ gw = OneFault(k, "down"))
        => {r \in Resources : GatewayFailed(r)} = {k}

\* C8, amended: in a run in which every gateway call for resource k fails
\* and every other call succeeds, under every interleaving, no resource but
\* k is reported failed by the gateway, k is reported failed exactly when
\* its action issues a gateway call and is left unchanged, every other
\* resource ends with the state and the outcome it has when the gateway is
\* up for all, and processed_count counts the workers that returned True.
FailureIsolation ==
    phase = "summary" =>
        /\ \A r \in Resources :
              EndsAsExpected(r, Decision(cloud_provider, scale_down, matching[r],
                                         start[r].marker))
        /\ processed_count = Cardinality({r \in Resources : task[r].result = "true"})

\* A live run has ended in which the gateway was down for one resource in
\* use, which is reported failed, and another resource was scaled down.
FailureIsolationWitness ==
    \E k \in Resources, r \in Resources :
        /\ phase = "summary" /\ scale_down /\ ~dry_run
        /\ gw = OneFault(k, "down") /\ r # k
        /\ ~AtZero(Enumerated(k)) /\ GatewayFailed(k)
        /\ ~AtZero(Enumerated(r)) /\ task[r].result = "true" /\ cloud[r].desired = 0
        /\ processed_count = 1

\* C9: in a dry run, in either mode and for either provider, no mutating
\* gateway call is issued and every resource keeps the capacity and the
\* marker it had at the start of the run, while a worker that has come to a
\* decision has appended a record exactly when the decision is not NoOp.
DryRunNeverMutates ==
    (phase # "idle" /\ dry_run) =>
        /\ cloud = start
        /\ \A r \in Resources : calls[r] = <<>>
        /\ \A r \in Resources :
              (task[r].pc = "returned" /\ task[r].result # "raised")
              => (HasRecord(r) <=>
                    Decision(cloud_provider, scale_down, matching[r],
                             start[r].marker).kind # "NoOp")

\* A dry run has ended with a record for a resource it would change and
\* none for a resource it would leave alone.
DryRunNeverMutatesWitness ==
    \E r \in Resources, q \in Resources :
        /\ phase = "summary" /\ dry_run
        /\ HasRecord(r) /\ task[r].result = "true" /\ cloud[r] = start[r]
        /\ ~HasRecord(q) /\ task[q].result = "false"

\* The records of a list with their multiplicities.
RecordBag(ops) ==
    [o \in {ops[j] : j \in DOMAIN ops} |-> Cardinality({j \in DOMAIN ops : ops[j] = o})]

\* This run is a live one and the run before it was a dry run of the same
\* command on the same input against the same gateway.
LiveAfterDry ==
    /\ run >= 2 /\ phase = "summary"
    /\ prev.dry_run /\ ~dry_run
    /\ prev.scale_down = scale_down
    /\ prev.gw = gw
    /\ prev.start = start

\* C10 as stated: the sequence of records of a dry run equals the sequence
\* of records of a live run on the same input.
DryRunSameSequence == LiveAfterDry => operations = prev.operations

\* C10, amended: for the same input and a gateway that answers the same,
\* the records of a dry run and of a live run are the same records, field
\* for field, each as many times; their order in the list is the order in
\* which the workers came to append them.
DryRunSameRecords == LiveAfterDry => RecordBag(operations) = RecordBag(prev.operations)

\* A live run after a dry run, both with one record per resource, in a
\* different order.
DryRunSameRecordsWitness ==
    /\ LiveAfterDry
    /\ Len(operations) = Cardinality(Resources)
    /\ operations # prev.operations

(***************************************************************************)
(* Properties of the waiter.                                               *)
(***************************************************************************)

\* The statuses that are neither DONE nor ABORTING.
WaitingStatuses == {"unspecified", "pending", "running", "unknown"}

\* The call has ended.
WaitEnded == waiter.pc \in {"returned", "raised"}

\* C11: the waiter always ends; it returns only on a poll that answered
\* DONE or ABORTING, so while the polls answer anything else it ends by
\* raising, with TimeoutError once the elapsed time has reached the timeout,
\* after at most one poll per poll interval of the timeout (one poll for a
\* timeout of one interval).
WaiterTimesOut ==
    /\ [](waiter.pc = "returned" => waiter.status \in {"done", "aborting"})
    /\ []((waiter.pc = "raised" /\ waiter.raised = "timeout")
            => waiter.elapsed >= waiter.timeout)
    /\ [](waiter.polls >= 1 => (waiter.polls - 1) * PollInterval < waiter.timeout)
    /\ (waiter.pc = "check") ~> WaitEnded

\* With a timeout of one poll interval the only poll answered RUNNING and
\* the waiter raised TimeoutError.
WaiterTimesOutWitness ==
    /\ waiter.pc = "raised" /\ waiter.raised = "timeout"
    /\ waiter.timeout = PollInterval
    /\ waiter.polls = 1
    /\ waiter.status = "running"

\* C13: a poll that answers PENDING, RUNNING, STATUS_UNSPECIFIED or an
\* unrecognised status neither returns nor raises: the waiter sleeps one
\* poll interval after each such poll and polls again while the time is not
\* up, and a poll that answers DONE makes it return.
WaitingStatusKeepsPolling ==
    /\ waiter.status \in WaitingStatuses
          => ( /\ waiter.pc # "returned"
               /\ waiter.pc = "raised" =>
                     \/ waiter.raised = "api"
                     \/ waiter.raised = "timeout" /\ waiter.elapsed >= waiter.timeout
               /\ waiter.pc \in {"check", "poll"} =>
                     /\ waiter.elapsed >= waiter.polls * PollInterval
                     /\ waiter.elapsed <= waiter.polls * (PollInterval + MaxLatency) )
    /\ waiter.status = "done" => waiter.pc = "returned"

\* The third poll answered DONE, after an unrecognised status and two
\* sleeps, and the waiter returned.
WaitingStatusKeepsPollingWitness ==
    /\ waiter.pc = "returned"
    /\ waiter.status = "done"
    /\ waiter.polls = 3
    /\ waiter.timeout = 3 * PollInterval
    /\ waiter.elapsed >= 2 * PollInterval

(***************************************************************************)
(* Properties of a resource's action.                                      *)
(***************************************************************************)

\* C12: when a poll answers ABORTING the wait ends in a way its caller can
\* tell from DONE, and the caller does not go on with the remaining steps
\* of the resource as after a completed operation: an aborted operation is
\* the last call of the action, and the action does not return True.
AbortEndsAction ==
    \A r \in Resources :
        \A j \in DOMAIN calls[r] :
            calls[r][j].wait = "aborting"
                => (j = Len(calls[r]) /\ task[r].result # "true")

\* The wait of the j-th call about r timed out.
TimedOutAt(r, j) == j \in DOMAIN calls[r] /\ calls[r][j].wait = "timeout"

\* C14: when a wait inside the action of r times out, the timed-out call is
\* the last gateway call for r in the run and is issued once (no retry, no
\* marker deletion after it), r's worker does not return True and is not
\* counted as processed, and the run still ends with every other worker
\* returned and none of them failed by the gateway.
TimeoutEndsAction ==
    \A r \in Resources : \A j \in DOMAIN calls[r] :
        TimedOutAt(r, j) =>
            /\ j = Len(calls[r])
            /\ \A h \in DOMAIN calls[r] : calls[r][h].kind = calls[r][j].kind => h = j
            /\ task[r].pc = "returned" /\ task[r].result = "raised" /\ task[r].err = "timeout"
            /\ (~scale_down /\ calls[r][j].kind # "delete_marker")
                  => cloud[r].marker = start[r].marker
            /\ processed_count <= Cardinality({q \in Resources \ {r} : task[q].result = "true"})
            /\ phase = "summary" =>
                  \A q \in Resources \ {r} :
                      task[q].pc = "returned" /\ task[q].err \notin {"api", "timeout"}

\* A live restore run has ended in which the wait for set_node_pool_autoscaling
\* of one node pool timed out, with its label still on it, and another node
\* pool was restored.
TimeoutEndsActionWitness ==
    \E r \in Resources, q \in Resources :
        /\ phase = "summary" /\ ~scale_down /\ ~dry_run
        /\ TimedOutAt(r, 2) /\ calls[r][2].kind = "set_autoscaling"
        /\ cloud[r].marker # NoMarker
        /\ q # r /\ task[q].result = "true" /\ cloud[q].marker = NoMarker
        /\ processed_count = 1

\* The calls that change the capacity of a resource.
CapacityKinds == {"update_asg", "set_size", "set_autoscaling", "resize_groups"}

\* The marker write of r's action has completed: the first call about r is
\* the write, it returned, and for a node pool its operation was DONE.
MarkerWriteCompleted(r) ==
    /\ calls[r] # <<>>
    /\ calls[r][1].kind = "write_marker" /\ calls[r][1].ok
    /\ calls[r][1].wait \in {"none", "done"}

\* C15: in a live save-and-zero action every capacity call about r comes
\* after a completed marker write that left on r the encoding of the
\* (min, max, desired) r had before the action; when the write failed no
\* capacity call is issued for r.
MarkerWrittenBeforeZeroing ==
    \A r \in Resources :
        (scale_down /\ ~dry_run) =>
            \A j \in DOMAIN calls[r] :
                calls[r][j].kind \in CapacityKinds =>
                    /\ j > 1 /\ MarkerWriteCompleted(r)
                    /\ LET c == CurrentOf(cloud_provider, start[r])
                       IN  cloud[r].marker =
                               Marker(FormatFor(cloud_provider, c.max, c.desired, c.min))

\* The statuses at which _wait_for_operation returns: the terminal ones.
TerminalWaits == {"done", "aborting"}

\* The call about r before the next one has reached its end: no resize
\* operation of r's instance groups is running, and the operation of the
\* last call, when one was waited for, ended in a terminal status.
LastCallEnded(r) ==
    /\ task[r].groupops # "running"
    /\ calls[r] # <<>> =>
          LET c == calls[r][Len(calls[r])]
          IN  c.kind # "resize_groups" => c.wait \in TerminalWaits

\* C16: on the asynchronous provider a step of r's action is issued only
\* when every long-running operation of the steps before it has reached a
\* terminal status; in particular the label is removed only when the resize
\* operations of the instance groups have completed.
OperationsAwaited ==
    [][ \A r \in Resources :
            (cloud_provider = "gcp" /\ Len(calls'[r]) > Len(calls[r]))
                => LastCallEnded(r) ]_vars

\* The j-th call about r did not succeed: it raised, or its operation was
\* aborted, timed out, or could not be polled.
CallFailedAt(r, j) ==
    \/ ~calls[r][j].ok
    \/ calls[r][j].wait \in {"aborting", "timeout", "error"}

\* C17: in a live restore, whenever a capacity call about r has failed,
\* been aborted or timed out in the current run, r still carries its marker.
MarkerKeptOnFailedRestore ==
    \A r \in Resources :
        (~scale_down /\ ~dry_run) =>
            \A j \in DOMAIN calls[r] :
                (calls[r][j].kind \in CapacityKinds /\ CallFailedAt(r, j))
                    => (cloud[r].marker # NoMarker /\ cloud[r].marker = start[r].marker)

\* (min, max, desired) and the marker of a resource.
CapacityAndMarker(c) == <<c.min, c.max, c.desired, c.marker>>

\* C18: when r's action has failed in a live run on a gateway error or a
\* timeout, r has the (min, max, desired) and the marker it had before the
\* action.
FailedActionLeavesState ==
    \A r \in Resources :
        (~dry_run /\ r \in DOMAIN task /\ task[r].pc = "returned"
                  /\ task[r].err \in {"api", "timeout"})
            => CapacityAndMarker(cloud[r]) = CapacityAndMarker(start[r])

\* C19: within one run no kind of mutation call is issued twice for a
\* resource, and a call that raised is not followed by any other call of the
\* action (the resizes of several instance groups apart, whose failures are
\* dropped and which are each called once).
NoCallRetried ==
    \A r \in Resources :
        \A j \in DOMAIN calls[r] :
            /\ \A h \in DOMAIN calls[r] : calls[r][h].kind = calls[r][j].kind => h = j
            /\ (~calls[r][j].ok /\ calls[r][j].kind # "resize_groups") => j = Len(calls[r])

\* A live restore has ended in which the resize of an instance group of a
\* node pool raised after two steps had succeeded, and the label removal
\* that followed was the fourth and last call.
NoCallRetriedWitness ==
    \E r \in Resources :
        /\ phase = "summary" /\ ~scale_down /\ ~dry_run
        /\ Len(calls[r]) = 4
        /\ calls[r][3].kind = "resize_groups" /\ ~calls[r][3].ok
        /\ calls[r][4].kind = "delete_marker"

\* The marker r carried when the run began is the payload "off", which
\* is in neither format.
BadMarker(r) == start[r].marker = Marker(<<"o", "f", "f">>)

Times(pairs, f) == Cardinality({i \in DOMAIN pairs : pairs[i].field = f})

\* The value of the last occurrence of f in a list that holds f.
LastVal(pairs, f) ==
    pairs[CHOOSE i \in DOMAIN pairs :
              pairs[i].field = f /\ \A j \in DOMAIN pairs : pairs[j].field = f => j <= i].val

\* A payload of two fields or more has been parsed: the separator of its
\* style is in it.
ParsedList == codec.pc = "parsed" /\ Len(codec.pairs) >= 2

\* C28: a keyed or dashed payload in which one of max, min and desired is
\* absent, or is there more than once, is rejected with the missing-fields
\* error.
ParseNeedsEachFieldOnce ==
    (ParsedList /\ \E f \in Fields : Times(codec.pairs, f) # 1)
        => (~codec.result.ok /\ codec.result.cause = "missing")

\* C29: a keyed payload that holds each of MaxSize, DesiredCapacity and
\* MinSize once, with values that make a valid triple, parses to that triple
\* whatever the order of the three pairs.
KeyedOrderIndependent ==
    ( /\ ParsedList /\ codec.style = "keyed"
      /\ \A f \in Fields : Times(codec.pairs, f) = 1
      /\ ValidTriple(LastVal(codec.pairs, "max"), LastVal(codec.pairs, "desired"),
                     LastVal(codec.pairs, "min")) )
    => ( /\ codec.result.ok
         /\ codec.result.max = LastVal(codec.pairs, "max")
         /\ codec.result.desired = LastVal(codec.pairs, "desired")
         /\ codec.result.min = LastVal(codec.pairs, "min") )

\* MinSize=1;MaxSize=2;DesiredCapacity=1 has been parsed to (2, 1, 1).
KeyedOrderIndependentWitness ==
    /\ codec.pc = "parsed" /\ codec.style = "keyed"
    /\ codec.pairs = <<Pair("min", 1), Pair("max", 2), Pair("desired", 1)>>
    /\ codec.result.ok
    /\ codec.result.max = 2 /\ codec.result.desired = 1 /\ codec.result.min = 1

\* What the parser of a style makes of a list whose values it reads as
\* written: the missing-fields error when a field is absent, the triple of
\* the values when they are valid, a validation error otherwise.
ReadAsWritten(pairs, res) ==
    IF \E f \in Fields : Times(pairs, f) = 0
    THEN ~res.ok /\ res.cause = "missing"
    ELSE IF ValidTriple(LastVal(pairs, "max"), LastVal(pairs, "desired"),
                        LastVal(pairs, "min"))
    THEN /\ res.ok
         /\ res.max = LastVal(pairs, "max")
         /\ res.desired = LastVal(pairs, "desired")
         /\ res.min = LastVal(pairs, "min")
    ELSE ~res.ok /\ res.cause \in {"negative", "max_limit", "min_gt_max", "desired_range"}

\* C30: a payload with a ';' in it is parsed as keyed, also when a '-' is in
\* it (the sign of a value, which the keyed parser reads as written); a
\* payload with a '-' and no ';' is parsed as dashed (a '-' before a value
\* splits the token, whose word is then left without digits); a payload
\* with neither is rejected as unsupported before any field is read.
StyleDetection ==
    codec.pc = "parsed" =>
        LET p == codec.payload
        IN  /\ HasChar(p, ";") => ReadAsWritten(codec.pairs, codec.result)
            /\ (HasChar(p, "-") /\ ~HasChar(p, ";")) =>
                  IF \E i \in DOMAIN codec.pairs : codec.pairs[i].val < 0
                  THEN ~codec.result.ok /\ codec.result.cause = "int"
                  ELSE ReadAsWritten(codec.pairs, codec.result)
            /\ (~HasChar(p, "-") /\ ~HasChar(p, ";")) =>
                  (~codec.result.ok /\ codec.result.cause = "unsupported")

\* MaxSize=1;DesiredCapacity=1;MinSize=-1, which holds both separators, has
\* been parsed as keyed: the negative value was read and refused.
StyleDetectionWitness ==
    /\ codec.pc = "parsed"
    /\ codec.payload = FormatAws(1, 1, -1)
    /\ HasChar(codec.payload, ";") /\ HasChar(codec.payload, "-")
    /\ ~codec.result.ok /\ codec.result.cause = "negative"

(***************************************************************************)
(* Properties of main().                                                   *)
(***************************************************************************)

\* The command line is invalid: the cluster name is empty, or the project
\* id is missing for GCP, or the region is missing for AWS.
BadConfig ==
    \/ main.cfg.cluster_name = ""
    \/ cloud_provider = "gcp" /\ main.cfg.account = ""
    \/ cloud_provider = "aws" /\ main.cfg.region = ""

\* C21: with an invalid command line main() ends on the validation error
\* with no gateway call made: the candidates are never listed, no future is
\* submitted, no record is made and no resource is called or changed.
InvalidConfigStopsEarly ==
    BadConfig =>
        /\ ~main.listed /\ phase = "idle"
        /\ matching = <<>> /\ task = <<>> /\ operations = <<>>
        /\ \A r \in Resources : calls[r] = <<>> /\ cloud[r] = start[r]
        /\ main.pc \in {"start", "exited"}
        /\ main.pc = "exited" => (main.err = "validation" /\ main.exit = "1")

\* main() has ended on the validation error for GCP with a cluster name and
\* no project id.
InvalidConfigStopsEarlyWitness ==
    /\ cloud_provider = "gcp"
    /\ main.cfg.cluster_name # "" /\ main.cfg.account = ""
    /\ main.pc = "exited" /\ main.err = "validation" /\ main.exit = "1"
    /\ ~main.listed

ListingFailed == main.listed /\ main.err = "gateway" /\ task = <<>>

\* A worker of the run failed: it returned False on an error or raised.
SomeWorkerFailed ==
    \E r \in DOMAIN task :
        \/ task[r].result = "raised"
        \/ task[r].result = "false" /\ task[r].err # ""

\* C23 as stated: the process exits with a failure status exactly when
\* the command line is invalid.
ExitFailureIffBadConfig ==
    main.pc = "exited" => (main.exit = "1" <=> BadConfig)

\* C23: the process exits with a failure status exactly when the command
\* line is invalid or the listing of the candidates fails on a gateway
\* error; the failures of the workers do not change the exit status.
ExitFailureIffBadConfigOrListing ==
    main.pc = "exited" =>
        /\ main.exit \in {"0", "1"}
        /\ main.exit = "1" <=> (BadConfig \/ ListingFailed)
        /\ (task # <<>>) => main.exit = "0"

\* main() has returned with status 0 from a live run in which a worker
\* raised on a gateway error.
ExitFailureIffBadConfigOrListingWitness ==
    /\ main.pc = "exited" /\ main.exit = "0" /\ ~dry_run
    /\ \E r \in DOMAIN task : task[r].result = "raised" /\ task[r].err = "api"

(***************************************************************************)
(* Properties of the thread pools.                                         *)
(***************************************************************************)

\* C24: at every moment of a fan-out the threads that can be inside a
\* gateway call are at most max_workers of the provider's executor (10 for
\* ASGs, 5 for node pools), whatever the number of candidates and of
\* instance groups; a candidate beyond the limit waits for a free worker.
CallersWithinLimit ==
    pool.pc = "fanout" =>
        /\ PoolCallers <= MaxWorkers
        /\ Cardinality(PoolBusy) <= MaxWorkers

\* C25: no resource id is targeted by two futures that are running at the
\* same time, also when the enumeration listed an id twice.
NoResourceTargetedTwice ==
    \A j \in PoolBusy, k \in PoolBusy :
        j # k => pool.list[j] # pool.list[k]

(***************************************************************************)
(* Properties of the operation log and of the summary.                     *)
(***************************************************************************)

\* The records of the run's list that are about resource r.
RecordsOf(r) == {j \in DOMAIN operations : operations[j].resource_name = r}

\* The worker of future i has taken its decision: it has left the queue
\* and, for a node pool, get_node_pool has not raised.
DecisionTaken(i) ==
    /\ task[i].pc # "submitted"
    /\ ~(cloud_provider = "gcp" /\ task[i].result = "raised"
                                /\ calls[matching[i].id] = <<>>)

\* The decision about r in this run is not NoOp: a save finds r above zero,
\* a restore finds a marker that is a payload.
NotNoOp(r) ==
    IF scale_down THEN ~AtZero(CurrentOf(cloud_provider, start[r]))
    ELSE start[r].marker \notin {NoMarker, Marker(Garbage)}

\* C26: under every interleaving of the workers the list of operations
\* holds exactly one record for each resource whose decision has been taken
\* and is not NoOp, and none for the others, at the summary as before it;
\* within a run the list only grows at its end, the records it holds stay
\* as they are.
OperationLogAppendOnly ==
    /\ [](\A i \in DOMAIN task :
            Cardinality(RecordsOf(matching[i].id)) =
                IF DecisionTaken(i) /\ NotNoOp(matching[i].id) THEN 1 ELSE 0)
    /\ [][run' = run =>
            /\ Len(operations') >= Len(operations)
            /\ SubSeq(operations', 1, Len(operations)) = operations]_vars

\* The summary of a live run over two resources whose workers both
\* recorded an operation, the second resource first.
OperationLogAppendOnlyWitness ==
    /\ phase = "summary" /\ ~dry_run
    /\ Len(operations) = 2
    /\ operations[1].resource_name = 2 /\ operations[2].resource_name = 1

\* C27: when the summary is logged every future of the run is done, with
\* True, False or an exception, and has been read by the loop; from then on
\* no worker takes a step and no call is issued for this run.
SummaryAfterAllActions ==
    /\ [](phase = "summary" =>
            \A i \in DOMAIN task :
                /\ task[i].pc = "returned" /\ task[i].collected
                /\ task[i].result \in {"true", "false", "raised"})
    /\ [][phase = "summary" =>
            \/ run' = run + 1
            \/ calls' = calls /\ task' = task /\ operations' = operations]_vars

\* The summary of a live run over two resources: one worker returned True
\* after its calls, the other ended on a failed call.
SummaryAfterAllActionsWitness ==
    /\ phase = "summary" /\ ~dry_run
    /\ \E i \in DOMAIN task, j \in DOMAIN task :
          /\ task[i].result = "true" /\ calls[matching[i].id] # <<>>
          /\ task[j].result \in {"false", "raised"} /\ task[j].err = "api"

(***************************************************************************)
(* Properties of the instance-group resizes and of the saved marker.       *)
(***************************************************************************)

\* A resize of an instance group of r failed on a gateway error in this run.
ResizeFailed(r) ==
    \E j \in DOMAIN calls[r] : calls[r][j].kind = "resize_groups" /\ ~calls[r][j].ok

\* C31: when a resize of an instance group of a node pool has failed on a
\* gateway error, the worker of the node pool does not return True, and in
\* restore mode the marker the run found is still on the node pool; with
\* one instance group and with several.
FailedResizeFailsAction ==
    \A i \in DOMAIN task :
        ResizeFailed(matching[i].id) =>
            /\ task[i].result # "true"
            /\ ~scale_down => cloud[matching[i].id].marker = start[matching[i].id].marker

\* This run has lowered the capacity of r: its size, its limits or the size
\* of one of its instance groups is not what the run found.
CapacityLowered(r) ==
    \/ <<cloud[r].min, cloud[r].max, cloud[r].desired>> #
           <<start[r].min, start[r].max, start[r].desired>>
    \/ cloud[r].groups # start[r].groups

\* The marker on r encodes the (min, max, desired) the run found on r.
CarriesSavedState(r) ==
    LET c == CurrentOf(cloud_provider, start[r])
    IN  cloud[r].marker = Marker(FormatFor(cloud_provider, c.max, c.desired, c.min))

\* C32: in every state of a live save-and-zero run, also after a failure,
\* an abort or a timeout at any step, a resource whose capacity the run has
\* brought down carries a marker that encodes the (min, max, desired) it
\* had before the run.
ZeroedCarriesMarker ==
    (scale_down /\ ~dry_run) =>
        \A r \in Resources : CapacityLowered(r) => CarriesSavedState(r)

(***************************************************************************)
(* Properties of the order of record and mutation.                         *)
(***************************************************************************)

\* C33: in both modes and for both providers a mutating call is issued for
\* a resource, and the resource is changed, only when its ScalingOperation
\* record is in the list; at every moment processed_count is at most the
\* number of records, which is at most the number of matching candidates.
RecordBeforeMutate ==
    /\ \A r \in Resources :
          (calls[r] # <<>> \/ cloud[r] # start[r]) => HasRecord(r)
    /\ processed_count <= Len(operations)
    /\ Len(operations) <= Len(matching)

\* A live run over a fleet in which both workers recorded an operation and
\* issued calls, one returned True and was counted, the other failed.
RecordBeforeMutateWitness ==
    /\ phase = "summary" /\ ~dry_run
    /\ Len(operations) = 2 /\ processed_count = 1
    /\ \A r \in {1, 2} : calls[r] # <<>> /\ HasRecord(r)

(***************************************************************************)
(* Properties of a save over an existing marker.                           *)
(***************************************************************************)

\* C34: a live save-and-zero action on a resource that is not at (0, 0, 0)
\* and carries a marker leaves on it the encoding of the (min, max,
\* desired) the action found, whatever the marker read before; a live
\* restore that follows returns the resource to that capacity, for a
\* capacity within 0 <= min <= desired <= max <= 1000, and removes the
\* marker.  The gateway is up in both runs.
SaveReplacesMarker ==
    \A r \in Resources :
        /\ ( /\ scale_down /\ ~dry_run /\ gw[r] = "up" /\ phase = "summary"
             /\ start[r].marker # NoMarker
             /\ ~AtZero(CurrentOf(cloud_provider, start[r])) )
           => (task[r].result = "true" /\ CarriesSavedState(r))
        /\ ( /\ PrevDone(r, TRUE)
             /\ prev.start[r].marker # NoMarker
             /\ ~AtZero(PrevCapacity(r))
             /\ ValidTriple(PrevCapacity(r).max, PrevCapacity(r).desired, PrevCapacity(r).min)
             /\ ~scale_down /\ ~dry_run /\ gw[r] = "up" /\ phase = "summary" )
           => ( /\ CurrentOf(cloud_provider, cloud[r]) = PrevCapacity(r)
                /\ cloud[r].marker = NoMarker )

\* A resource at (min 2, max 5, desired 3) that carried the marker of
\* (min 1, max 4, desired 2) was saved and zeroed by one live run and
\* restored by the next to (2, 5, 3).
SaveReplacesMarkerWitness ==
    \E r \in Resources :
        /\ PrevDone(r, TRUE)
        /\ prev.start[r].marker \in {Marker(SavedAws), Marker(SavedGcp)}
        /\ PrevCapacity(r) = [min |-> 2, max |-> 5, desired |-> 3]
        /\ start[r].desired = 0
        /\ ~scale_down /\ ~dry_run /\ gw[r] = "up" /\ phase = "summary"
        /\ task[r].result = "true"
        /\ CurrentOf(cloud_provider, cloud[r]) = [min |-> 2, max |-> 5, desired |-> 3]

====
